---- MODULE Spec2Model ----
(***************************************************************************)
(* Payment flow orchestration between the MercadoPago gateway and the Bird *)
(* (WhatsApp) messaging API: PaymentOrchestrator and its data model.       *)
(*                                                                         *)
(* Every inbound event is an independent invocation.  initiate_payment_flow*)
(* is modelled with one step per suspension point that matters to the flow *)
(* record (conversation update, gateway call + store, message + status     *)
(* write); the webhook status update and the cancellation are one step     *)
(* each.  The Payment Flow Store and the Conversation Manager are the      *)
(* collaborators of spec sections 4.2 and 6; the orchestrator's own        *)
(* storage helpers only forward to them.                                   *)
(***************************************************************************)
EXTENDS Integers, Sequences, FiniteSets, TLC

(***************************************************************************)
(* Bounds: at most MaxOps events happen, an event being the invocation of  *)
(* an operation or the clock moving on by a second                         *)
(***************************************************************************)
MaxOps == 3

Inv == 1..MaxOps
ConvIds == {"c1", "c2"}
Times == 0..MaxOps

\* Python's None, for a field holding a string, an identifier, a number
None == "None"
NoId == << >>
NoNumber == 0 - 1

(***************************************************************************)
(* Inputs                                                                  *)
(***************************************************************************)
\* phone numbers, as the characters of the string passed:
\* "+573001234567", "3001234567" and "30012345"
PhoneCanonical == <<"+", "5", "7", "3", "0", "0", "1", "2", "3", "4", "5", "6", "7">>
PhoneBare10 == <<"3", "0", "0", "1", "2", "3", "4", "5", "6", "7">>
PhoneShort == <<"3", "0", "0", "1", "2", "3", "4", "5">>
Phones == {PhoneCanonical, PhoneBare10, PhoneShort}

\* other spellings: "573001234567", "+57 300 1234567", "+13001234567"
\* (a foreign prefix), "5730012345" (ten digits that begin with 57) and
\* "+5730012345678" (one digit too many)
PhonePlain12 == <<"5", "7", "3", "0", "0", "1", "2", "3", "4", "5", "6", "7">>
PhoneSpaced == <<"+", "5", "7", " ", "3", "0", "0", " ", "1", "2", "3", "4", "5", "6", "7">>
PhoneForeign == <<"+", "1", "3", "0", "0", "1", "2", "3", "4", "5", "6", "7">>
PhoneTen57 == <<"5", "7", "3", "0", "0", "1", "2", "3", "4", "5">>
PhoneLong == <<"+", "5", "7", "3", "0", "0", "1", "2", "3", "4", "5", "6", "7", "8">>
PhoneSpellings ==
    Phones \cup {PhonePlain12, PhoneSpaced, PhoneForeign, PhoneTen57, PhoneLong}

Camisa == [id |-> "sku1", quantity |-> 2, unit_price |-> 50000]
ItemLists == {<< >>, <<Camisa>>}

\* more items, and carts holding the same items in different orders
Jean == [id |-> "sku2", quantity |-> 1, unit_price |-> 89900]
Gorra == [id |-> "sku3", quantity |-> 3, unit_price |-> 15000]
OrderedCarts == {<<Camisa, Jean, Gorra>>, <<Jean, Gorra, Camisa>>}

(***************************************************************************)
(* Enumerations                                                            *)
(***************************************************************************)
PaymentFlowStatus ==
    {"initiated", "preference_created", "link_sent", "payment_pending",
     "payment_approved", "payment_failed", "cancelled", "expired",
     "completed", "failed"}

PaymentStatus ==
    {"pending", "approved", "authorized", "in_process", "in_mediation",
     "rejected", "cancelled", "refunded", "charged_back"}

\* what a webhook may carry: every PaymentStatus and one string that is none
WebhookStatuses == PaymentStatus \cup {"bogus"}

\* faulty variant: an authorized payment does not count as successful
is_payment_successful_approved_only(status) == status = "approved"

is_payment_successful(status) == status \in {"approved", "authorized"}

is_payment_failed(status) == status \in {"rejected", "cancelled"}

is_payment_pending(status) == status \in {"pending", "in_process"}

is_active(status) ==
    status \in {"initiated", "preference_created", "link_sent", "payment_pending"}

is_completed(status) == status \in {"payment_approved", "completed"}

is_failed(status) ==
    status \in {"payment_failed", "cancelled", "expired", "failed"}

DigitChars == {"0", "1", "2", "3", "4", "5", "6", "7", "8", "9"}

\* ''.join(filter(str.isdigit, v)) and re.sub(r'\D', '', v)
Digits(v) == SelectSeq(v, LAMBDA c : c \in DigitChars)

\* clean_phone.startswith('57')
StartsWith57(clean_phone) ==
    Len(clean_phone) >= 2 /\ clean_phone[1] = "5" /\ clean_phone[2] = "7"

\* PaymentFlow.validate_phone: TRUE when the constructor accepts the phone;
\* the validator returns v, so the flow keeps the phone as it was passed
validate_phone(v) ==
    LET clean_phone == Digits(v)
    IN StartsWith57(clean_phone) /\ Len(clean_phone) = 12

\* Customer.validate_phone: TRUE when the gateway request accepts the phone
customer_validate_phone(v) ==
    LET clean_phone == Digits(v)
    IN \/ StartsWith57(clean_phone) /\ Len(clean_phone) = 12
       \/ Len(clean_phone) = 10

\* Customer.validate_phone: the value it returns for a phone it accepts
customer_phone_value(v) ==
    LET clean_phone == Digits(v)
    IN IF StartsWith57(clean_phone) /\ Len(clean_phone) = 12
       THEN <<"+">> \o clean_phone
       ELSE <<"+", "5", "7">> \o clean_phone

\* bird/models.py: format_phone_number_for_bird, which raises for no input
format_phone_number_for_bird(phone) ==
    LET clean_phone == Digits(phone)
    IN IF ~StartsWith57(clean_phone) /\ Len(clean_phone) = 10
       THEN <<"5", "7">> \o clean_phone
       ELSE clean_phone

RECURSIVE SumItems(_)
SumItems(items) ==
    IF items = << >> THEN 0
    ELSE Head(items).unit_price * Head(items).quantity + SumItems(Tail(items))

MaxTotalAmount == 999999999

\* sum(Decimal(str(item["unit_price"])) * item["quantity"] for item in items):
\* sum starts from 0 and adds the terms from the first item on; Decimal(str(x))
\* is exact for the prices used here
RECURSIVE sum_from(_, _)
sum_from(start, items) ==
    IF items = << >> THEN start
    ELSE sum_from(start + Head(items).unit_price * Head(items).quantity,
                  Tail(items))

\* PaymentFlow.total_amount
total_amount(payment_flow) == sum_from(0, payment_flow.items)

\* faulty variant: the message total counts every item once
link_message_total_per_item(payment_flow) ==
    sum_from(0, [k \in 1..Len(payment_flow.items) |->
                    [payment_flow.items[k] EXCEPT !.quantity = 1]])

\* _send_payment_link_message, line 460: total_amount of PaymentLinkMessage
link_message_total(payment_flow) == sum_from(0, payment_flow.items)

\* _handle_payment_success, line 497: total_amount of
\* PaymentConfirmationMessage
confirmation_message_total(payment_flow) == sum_from(0, payment_flow.items)

\* PaymentItem / PaymentRequest validation inside _build_payment_request
payment_request_valid(phone, items) ==
    /\ \A k \in 1..Len(items) :
          /\ items[k].quantity >= 1 /\ items[k].quantity <= 100
          /\ items[k].unit_price > 0
    /\ customer_validate_phone(phone)
    /\ Len(items) >= 1 /\ Len(items) <= 50
    /\ SumItems(items) > 0 /\ SumItems(items) <= MaxTotalAmount

(***************************************************************************)
(* State                                                                   *)
(***************************************************************************)
VARIABLES
    now,        \* wall clock, in seconds
    flows,      \* Payment Flow Store: flow_id -> PaymentFlow
    convs,      \* Conversation Store: conversation_id -> context
    inv,        \* the initiate_payment_flow invocations
    prefs,      \* number of preferences the gateway has created
    last,       \* the last completed webhook update / cancellation
    ops,        \* events so far
    payments,   \* the gateway client's payments table: payment id -> status
    events,     \* the payment events the gateway client has sent to its queue
    session,    \* a ConversationSession: its cart_items and cart_total
    bird_context, \* a ConversationContext of bird/models.py: its cart_items
    bird        \* the BirdAPIClient: its cached token and the auth requests made

vars == <<now, flows, convs, inv, prefs, last, ops, payments, events, session, bird_context, bird>>

NoFlow == [flow_id |-> NoId]
NoResponse == [id |-> NoId]
NoData == [status |-> None]

\* every flow id the bounded clock can produce, and every payment id the
\* gateway can hand out, with <<"pref", 0>> an id it never created
FlowIds == {<<"flow", t, cid>> : t \in Times, cid \in ConvIds}
PaymentIds == {<<"pref", n>> : n \in 0..MaxOps}

\* error: the exception the handler at line 128 caught; mark: how its
\* best-effort write of status failed ended; result: what the caller gets;
\* retry_of / original_attempt / retry_ret: for an initiation made by
\* retry_failed_payment, the flow id it was given, the retry_attempt it
\* read from that flow and what it gave back to its own caller;
\* caller: "message" for an initiation made by handle_conversation_message;
\* reply: what _handle_payment_intent then answered;
\* link_total: the total_amount of the payment-link message built
IdleInv ==
    [pc |-> "idle", conversation_id |-> None, customer_phone |-> << >>,
     items |-> << >>, flow_id |-> NoId, payment_flow |-> NoFlow,
     response |-> NoResponse, link_sent |-> None, result |-> None,
     error |-> None, mark |-> None,
     retry_of |-> NoId, original_attempt |-> NoNumber, retry_ret |-> None,
     caller |-> "api", reply |-> None, link_total |-> NoNumber]

\* payment_id / payment_status: the arguments of a status update;
\* target: the flow_id argument of a cancellation;
\* conversation_id / text: the arguments of a handled message; branch: the
\* handler it was dispatched to; response: the action returned; touched:
\* whether update_last_activity was called;
\* status_detail: the status_detail of the payment data of a status update;
\* message: the send call the operation made to the messaging adapter;
\* recipient: the phone that call was given; reason: the failure reason
\* placed in a failure message; total_amount: the total placed in a
\* confirmation message;
\* handler: the branch handler the update called, if any;
\* delivered: whether the messaging adapter reported that message sent;
\* error: the exception the operation's own handler caught, if any;
\* gateway_ok: the gateway's answer to a cancel_preference call;
\* old_status / had_cart: the flow's stored status and whether the
\* conversation's cart held items when the operation began;
\* duplicate: whether the update repeats the one completed just before;
\* signature / secret / body: the x-signature header and the body of a
\* request to the webhook handler and the secret configured, or the
\* webhook data given to the client; validated: whether a
\* WebhookNotification was built from it; status_code: the handler's answer;
\* fetched: whether get_payment was called;
\* phone / accepted / value: the phone given to a phone normalizer, whether
\* it returned, and the value it returned
NoLast ==
    [op |-> None, flow_id |-> NoId, payment_id |-> NoId, target |-> NoId,
     conversation_id |-> None, text |-> << >>, branch |-> None,
     response |-> None, touched |-> FALSE,
     payment_status |-> None, status_detail |-> None, ret |-> FALSE,
     message |-> None, recipient |-> << >>, reason |-> << >>,
     total_amount |-> NoNumber,
     handler |-> None, delivered |-> None, error |-> None,
     gateway_ok |-> None, old_status |-> None, had_cart |-> FALSE,
     duplicate |-> FALSE,
     signature |-> << >>, secret |-> None,
     body |-> [json |-> FALSE, type |-> None, action |-> None, data_id |-> NoId],
     validated |-> FALSE, status_code |-> NoNumber, fetched |-> FALSE,
     phone |-> << >>, accepted |-> FALSE, value |-> << >>]

\* ConversationSession(): cart_items = [], cart_total = Decimal('0')
NewSession == [cart_items |-> << >>, cart_total |-> 0]

\* ConversationContext(): cart_items = []
NewBirdContext == [cart_items |-> << >>]

\* BirdAPIClient.__init__: no token cached; requests counts the posts made
\* to /auth/token; expires_kind is the type of the value in _token_expires_at
NewBirdClient ==
    [access_token |-> None, token_expires_at |-> NoNumber,
     expires_kind |-> None, requests |-> 0]

MsgKinds == {"payment_link", "payment_confirmation", "payment_failure"}

\* a conversation context: its state, its cart and the customer's phone
NewContext(state, cart) ==
    [current_state |-> state, cart_items |-> cart,
     customer_phone |-> PhoneCanonical]

Init ==
    /\ now = 0
    /\ flows = << >>
    /\ convs = [cid \in ConvIds |-> NewContext("browsing", <<Camisa>>)]
    /\ inv = [i \in Inv |-> IdleInv]
    /\ prefs = 0
    /\ last = NoLast
    /\ payments = << >>
    /\ events = << >>
    /\ session = NewSession
    /\ bird_context = NewBirdContext
    /\ bird = NewBirdClient
    /\ ops = 0

(***************************************************************************)
(* Collaborators: Payment Flow Store and Conversation Manager              *)
(***************************************************************************)
StoredIds == DOMAIN flows

\* put(flow): write the whole record under its flow_id
store_put(fs, flow) ==
    [f \in (DOMAIN fs) \cup {flow.flow_id} |->
        IF f = flow.flow_id THEN flow ELSE fs[f]]

\* update of the status attribute of one record; a missing record stays missing
store_update_status(fs, fid, status) ==
    IF fid \in DOMAIN fs
    THEN [fs EXCEPT ![fid].status = status]
    ELSE fs

\* get_by_payment_id(payment_id): the flow ids carrying that payment id
store_ids_by_payment_id(fs, pid) ==
    {f \in DOMAIN fs : fs[f].payment_id = pid}

update_conversation_state(cs, cid, new_state) ==
    [cs EXCEPT ![cid].current_state = new_state]

clear_cart(cs, cid) ==
    [cs EXCEPT ![cid].cart_items = << >>]

(***************************************************************************)
(* initiate_payment_flow                                                   *)
(***************************************************************************)
\* flow_id = f"flow_{now:%Y%m%d_%H%M%S}_{conversation_id}"
flow_id_of(t, cid) == <<"flow", t, cid>>

NoMetadata ==
    [original_flow_id |-> NoId, retry_attempt |-> NoNumber,
     cancellation_reason |-> None, cancelled_at |-> NoNumber]

NewPaymentFlow(fid, cid, phone, items, t) ==
    [flow_id |-> fid, conversation_id |-> cid, customer_phone |-> phone,
     items |-> items, payment_id |-> NoId, transaction_id |-> NoId,
     checkout_url |-> NoId, status |-> "initiated", payment_status |-> None,
     created_at |-> t, updated_at |-> NoNumber, expires_at |-> NoNumber,
     payment_data |-> NoData, metadata |-> NoMetadata]

PaymentExpirationMinutes == 30

\* PaymentResponse of the n-th preference the gateway creates
PaymentResponse(n, t) ==
    [id |-> <<"pref", n>>, checkout_url |-> <<"url", n>>,
     transaction_id |-> <<"txn", n>>,
     expires_at |-> t + 60 * PaymentExpirationMinutes]

\* faulty variant: the checkout url of the response is not copied to the flow
WithPreferenceNoUrl(flow, resp) ==
    [flow EXCEPT !.payment_id = resp.id,
                 !.transaction_id = resp.transaction_id,
                 !.expires_at = resp.expires_at,
                 !.status = "preference_created"]

\* faulty variant: the flow keeps status initiated when it takes the
\* preference's data
WithPreferenceInitiated(flow, resp) ==
    [flow EXCEPT !.payment_id = resp.id,
                 !.transaction_id = resp.transaction_id,
                 !.checkout_url = resp.checkout_url,
                 !.expires_at = resp.expires_at]

\* "Update payment flow with MercadoPago data"
WithPreference(flow, resp) ==
    [flow EXCEPT !.payment_id = resp.id,
                 !.transaction_id = resp.transaction_id,
                 !.checkout_url = resp.checkout_url,
                 !.expires_at = resp.expires_at,
                 !.status = "preference_created"]

\* faulty variant: every exception is wrapped into the generic error
RaisedAsWrapped(exc) == "IntegrationError"

\* lines 142-144: what the exception handler raises
RaisedAs(exc) ==
    IF exc \in {"PaymentError", "BirdError", "IntegrationError"}
    THEN exc ELSE "IntegrationError"

\* lines 137-140: the best-effort write of status failed; when the store
\* raises, the bare except swallows it and the record stays as it was
MarkFailed(fs, fid, mark_ok) ==
    IF mark_ok THEN store_update_status(fs, fid, "failed") ELSE fs

\* faulty variant: retry_failed_payment lets the exception through
RetryOutcomePropagates(exc) == exc

\* lines 325-332: retry_failed_payment turns every exception into False
RetryOutcome(exc) == "false"

\* faulty variant: _handle_payment_intent lets the exception through
PaymentIntentOutcomePropagates(exc) == exc

\* lines 622-631: _handle_payment_intent answers every exception of
\* initiate_payment_flow with the apology text
PaymentIntentOutcome(exc) == "apology_text"

\* an invocation that ended by raising keeps what identifies it and the error
Raised(r, exc) ==
    [IdleInv EXCEPT !.pc = "done", !.conversation_id = r.conversation_id,
                    !.flow_id = r.flow_id, !.error = exc,
                    !.mark = "written", !.result = RaisedAs(exc),
                    !.retry_of = r.retry_of, !.caller = r.caller,
                    !.retry_ret = IF r.retry_of = NoId THEN None
                                  ELSE RetryOutcome(RaisedAs(exc)),
                    !.reply = IF r.caller = "message"
                              THEN PaymentIntentOutcome(RaisedAs(exc))
                              ELSE None]

\* lines 62-88 in invocation slot i; caller holds what retry_failed_payment
\* read before it made the call (IdleInv for a direct call)
InitiateBegin(i, cid, phone, items, caller) ==
    /\ LET fid == flow_id_of(now, cid)
           base == [caller EXCEPT !.conversation_id = cid,
                                  !.customer_phone = phone,
                                  !.items = items,
                                  !.flow_id = fid]
       IN IF validate_phone(phone)
          THEN /\ inv' = [inv EXCEPT ![i] =
                             [base EXCEPT !.pc = "create",
                                          !.payment_flow =
                                              NewPaymentFlow(fid, cid, phone, items, now)]]
               /\ convs' = update_conversation_state(convs, cid, "payment_requested")
               /\ flows' = flows
          ELSE /\ inv' = [inv EXCEPT ![i] = Raised(base, "ValidationError")]
               /\ flows' = store_update_status(flows, fid, "failed")
               /\ convs' = convs

InitiateStart(i, cid, phone, items) ==
    /\ inv[i].pc = "idle"
    /\ IF i = 1 THEN TRUE ELSE inv[i - 1].pc # "idle"
    /\ ops < MaxOps
    /\ ops' = ops + 1
    /\ InitiateBegin(i, cid, phone, items, IdleInv)
    /\ UNCHANGED <<now, prefs, last, payments, events, session, bird_context, bird>>

\* what the store may do to the writes of one InitiateCreate step: serve
\* them, fail the best-effort write of status failed, or fail the put
CreateFaults == {"none", "mark", "store"}

InitiateCreate(i, gateway_ok, fault) ==
    /\ inv[i].pc = "create"
    /\ LET r == inv[i]
           marked == IF fault = "mark" THEN "lost" ELSE "written"
           failed_with(exc) ==
               /\ inv' = [inv EXCEPT ![i] =
                             [Raised(r, exc) EXCEPT !.mark = marked]]
               /\ flows' = MarkFailed(flows, r.flow_id, fault # "mark")
       IN IF ~payment_request_valid(r.customer_phone, r.items)
          THEN /\ failed_with("ValidationError")
               /\ prefs' = prefs
          ELSE IF ~gateway_ok
          THEN /\ failed_with("PaymentError")
               /\ prefs' = prefs
          ELSE LET resp == PaymentResponse(prefs + 1, now)
                   pf == WithPreference(r.payment_flow, resp)
               IN /\ prefs' = prefs + 1
                  /\ IF fault = "store"
                     THEN failed_with("StoreError")
                     ELSE /\ inv' = [inv EXCEPT ![i].pc = "send",
                                                ![i].response = resp,
                                                ![i].payment_flow = pf]
                          /\ flows' = store_put(flows, pf)
    /\ UNCHANGED <<now, convs, last, ops, payments, events, session, bird_context, bird>>

\* faulty variant: a payment link that could not be sent is treated as sent
SendOutcomeIgnoresFailure(success) ==
    [status |-> "link_sent", result |-> "returned"]

\* lines 110-144: status written and outcome, given the messaging result
SendOutcome(success) ==
    IF success
    THEN [status |-> "link_sent", result |-> "returned"]
    ELSE [status |-> "failed", result |-> RaisedAs("IntegrationError")]

InitiateSend(i, success) ==
    /\ inv[i].pc = "send"
    /\ LET r == inv[i]
           out == SendOutcome(success)
           sent == IF success THEN "sent" ELSE "failed"
           written == store_update_status(flows, r.flow_id, out.status)
       IN /\ flows' = IF out.result = "returned"
                      THEN written
                      ELSE store_update_status(written, r.flow_id, "failed")
          /\ inv' = [inv EXCEPT ![i] =
                        IF out.result = "returned"
                        THEN [r EXCEPT !.pc = IF r.retry_of = NoId
                                             THEN "done" ELSE "link",
                                       !.link_sent = sent,
                                       !.link_total = link_message_total(r.payment_flow),
                                       !.payment_flow.status = out.status,
                                       !.result = out.result,
                                       !.reply = IF r.caller = "message"
                                                 THEN "payment_initiated"
                                                 ELSE None]
                        ELSE [Raised(r, out.result) EXCEPT
                                 !.link_sent = sent,
                                 !.link_total = link_message_total(r.payment_flow)]]
    /\ UNCHANGED <<now, convs, prefs, last, ops, payments, events, session, bird_context, bird>>

(***************************************************************************)
(* retry_failed_payment                                                    *)
(***************************************************************************)
\* lines 296-308: load the original flow, then call initiate_payment_flow
\* with its conversation, items and the phone given
RetryStart(i, fid, phone) ==
    /\ inv[i].pc = "idle"
    /\ IF i = 1 THEN TRUE ELSE inv[i - 1].pc # "idle"
    /\ ops < MaxOps
    /\ ops' = ops + 1
    /\ IF fid \notin StoredIds
       THEN /\ inv' = [inv EXCEPT ![i] =
                          [IdleInv EXCEPT !.pc = "done", !.retry_of = fid,
                                          !.retry_ret = "false"]]
            /\ UNCHANGED <<flows, convs>>
       ELSE LET original == flows[fid]
            IN InitiateBegin(i, original.conversation_id, phone, original.items,
                             [IdleInv EXCEPT
                                 !.retry_of = fid,
                                 !.original_attempt = original.metadata.retry_attempt])
    /\ UNCHANGED <<now, prefs, last, payments, events, session, bird_context, bird>>

\* lines 311-312: metadata.get("retry_attempt", 0) + 1
Linked(flow, fid, original_attempt) ==
    [flow EXCEPT !.metadata.original_flow_id = fid,
                 !.metadata.retry_attempt =
                     (IF original_attempt = NoNumber THEN 0
                      ELSE original_attempt) + 1]

\* lines 310-323: write the lineage into the returned flow and store it
RetryLink(i, store_ok) ==
    /\ inv[i].pc = "link"
    /\ LET r == inv[i]
           retry_flow == Linked(r.payment_flow, r.retry_of, r.original_attempt)
       IN IF store_ok
          THEN /\ flows' = store_put(flows, retry_flow)
               /\ inv' = [inv EXCEPT ![i].pc = "done",
                                     ![i].payment_flow = retry_flow,
                                     ![i].retry_ret = "true"]
          ELSE /\ flows' = flows
               /\ inv' = [inv EXCEPT ![i].pc = "done",
                                     ![i].payment_flow = retry_flow,
                                     ![i].error = "StoreError",
                                     ![i].retry_ret = RetryOutcome("StoreError")]
    /\ UNCHANGED <<now, convs, prefs, last, ops, payments, events, session, bird_context, bird>>

(***************************************************************************)
(* handle_conversation_message                                             *)
(***************************************************************************)
\* str.lower(), for the capitals the messages below use
LowerChar(c) ==
    CASE c = "P" -> "p" [] c = "A" -> "a" [] c = "G" -> "g" [] c = "R" -> "r"
      [] OTHER -> c

Lower(text) == [k \in 1..Len(text) |-> LowerChar(text[k])]

\* keyword in message_text: the keyword occurs as a substring
Contains(text, keyword) ==
    \E k \in 0..(Len(text) - Len(keyword)) :
        SubSeq(text, k + 1, k + Len(keyword)) = keyword

\* _is_payment_intent
payment_keywords ==
    {<<"p", "a", "g", "a", "r">>,
     <<"c", "o", "m", "p", "r", "a", "r">>,
     <<"p", "r", "e", "c", "i", "o">>,
     <<"c", "o", "s", "t", "o">>,
     <<"c", "h", "e", "c", "k", "o", "u", "t">>,
     <<"p", "a", "g", "o">>}

\* _is_cart_action
cart_keywords ==
    {<<"c", "a", "r", "r", "i", "t", "o">>,
     <<"a", "g", "r", "e", "g", "a", "r">>,
     <<"q", "u", "i", "t", "a", "r">>,
     <<"v", "a", "c", "i", "a", "r">>,
     <<"e", "l", "i", "m", "i", "n", "a", "r">>}

\* _is_product_inquiry
product_keywords ==
    {<<"p", "r", "o", "d", "u", "c", "t", "o">>,
     <<"t", "a", "l", "l", "a">>,
     <<"c", "o", "l", "o", "r">>,
     <<"d", "i", "s", "p", "o", "n", "i", "b", "l", "e">>,
     <<"s", "t", "o", "c", "k">>}

is_payment_intent(message_text) ==
    \E keyword \in payment_keywords : Contains(message_text, keyword)

is_cart_action(message_text) ==
    \E keyword \in cart_keywords : Contains(message_text, keyword)

is_product_inquiry(message_text) ==
    \E keyword \in product_keywords : Contains(message_text, keyword)

\* the message texts received, as the characters of content.text
\* "quiero pagar": a payment keyword alone
Text1 == <<"q", "u", "i", "e", "r", "o", " ", "p", "a", "g", "a", "r">>
\* "pagar carrito": a payment and a cart keyword
Text2 == <<"p", "a", "g", "a", "r", " ", "c", "a", "r", "r", "i", "t", "o">>
\* "precio talla": a payment and a product keyword
Text3 == <<"p", "r", "e", "c", "i", "o", " ", "t", "a", "l", "l", "a">>
\* "vaciar carrito": cart keywords, one of them clearing
Text4 == <<"v", "a", "c", "i", "a", "r", " ", "c", "a", "r", "r", "i", "t", "o">>
\* "agregar producto": a cart and a product keyword
Text5 == <<"a", "g", "r", "e", "g", "a", "r", " ", "p", "r", "o", "d", "u", "c", "t", "o">>
\* "hay stock": a product keyword alone
Text6 == <<"h", "a", "y", " ", "s", "t", "o", "c", "k">>
\* "hola": no keyword
Text7 == <<"h", "o", "l", "a">>
\* "PAGAR": a payment keyword in capitals
Text8 == <<"P", "A", "G", "A", "R">>
\* "apagar": a payment keyword inside another word
Text9 == <<"a", "p", "a", "g", "a", "r">>

Texts == {Text1, Text2, Text3, Text4, Text5, Text6, Text7, Text8, Text9}

\* faulty variant: the cart check comes before the payment check
DispatchCartFirst(message_text) ==
    IF is_cart_action(message_text) THEN "_handle_cart_action"
    ELSE IF is_payment_intent(message_text) THEN "_handle_payment_intent"
    ELSE IF is_product_inquiry(message_text) THEN "_handle_product_inquiry"
    ELSE None

\* lines 255-263: the handler the if / elif chain calls
Dispatch(message_text) ==
    IF is_payment_intent(message_text) THEN "_handle_payment_intent"
    ELSE IF is_cart_action(message_text) THEN "_handle_cart_action"
    ELSE IF is_product_inquiry(message_text) THEN "_handle_product_inquiry"
    ELSE None

\* faulty variant: the cart is never found empty
CartIsEmptyNever(cart_items) == FALSE

\* line 602: not context.cart_items
CartIsEmpty(cart_items) == cart_items = << >>

\* line 640: the cart actions that clear the cart
ClearsCart(message_text) ==
    \/ Contains(message_text, <<"v", "a", "c", "i", "a", "r">>)
    \/ Contains(message_text, <<"e", "l", "i", "m", "i", "n", "a", "r">>)

Dispatched(cid, text, branch) ==
    [NoLast EXCEPT !.op = "message", !.conversation_id = cid, !.text = text,
                   !.branch = branch]

\* a message answered within handle_conversation_message itself: every
\* branch but a payment intent with items in the cart
MessageReply(cid, text) ==
    /\ ops < MaxOps
    /\ ops' = ops + 1
    /\ LET message_text == Lower(text)
           branch == Dispatch(message_text)
           context == convs[cid]
           seen == Dispatched(cid, text, branch)
       IN /\ branch = "_handle_payment_intent" => CartIsEmpty(context.cart_items)
          /\ IF branch = "_handle_payment_intent"
             THEN /\ last' = [seen EXCEPT !.response = "cart_empty_text"]
                  /\ convs' = convs
             ELSE IF branch = "_handle_cart_action"
             THEN IF ClearsCart(message_text)
                  THEN /\ last' = [seen EXCEPT !.response = "cart_cleared_text"]
                       /\ convs' = clear_cart(convs, cid)
                  ELSE /\ last' = seen
                       /\ convs' = convs
             ELSE IF branch = "_handle_product_inquiry"
             THEN /\ last' = [seen EXCEPT !.response = "product_text"]
                  /\ convs' = convs
             ELSE /\ last' = [seen EXCEPT !.touched = TRUE]
                  /\ convs' = convs
    /\ UNCHANGED <<now, flows, inv, prefs, payments, events, session, bird_context, bird>>

\* a payment intent with items in the cart: lines 608-615 call
\* initiate_payment_flow with the context's phone and cart
MessagePay(i, cid, text) ==
    /\ inv[i].pc = "idle"
    /\ IF i = 1 THEN TRUE ELSE inv[i - 1].pc # "idle"
    /\ ops < MaxOps
    /\ ops' = ops + 1
    /\ LET message_text == Lower(text)
           branch == Dispatch(message_text)
           context == convs[cid]
       IN /\ branch = "_handle_payment_intent"
          /\ ~CartIsEmpty(context.cart_items)
          /\ last' = Dispatched(cid, text, branch)
          /\ InitiateBegin(i, cid, context.customer_phone, context.cart_items,
                           [IdleInv EXCEPT !.caller = "message"])
    /\ UNCHANGED <<now, prefs, payments, events, session, bird_context, bird>>

(***************************************************************************)
(* process_payment_status_update                                           *)
(***************************************************************************)
\* faulty variant: an untracked payment id makes the webhook be retried
MissingFlowResultRetry == FALSE

\* line 176: a payment id no flow carries is a benign miss
MissingFlowResult == TRUE

\* faulty variant: an update that changes nothing is rejected as a duplicate
StatusUpdateRejectsDuplicate(old_status, payment_status) ==
    \/ payment_status \notin PaymentStatus
    \/ /\ is_payment_successful(payment_status)
       /\ old_status = "payment_approved"

\* PaymentStatus(payment_status) raises ValueError for a string that is no
\* member of the enumeration; the handler below line 210 turns it into False
StatusUpdateRaises(old_status, payment_status) ==
    payment_status \notin PaymentStatus

\* faulty variant: a status of none of the three groups fails the flow
NewFlowStatusElseFailed(old_status, payment_status) ==
    IF is_payment_successful(payment_status) THEN "payment_approved"
    ELSE IF is_payment_pending(payment_status) THEN "payment_pending"
    ELSE "payment_failed"

\* "Determine new flow status"
NewFlowStatus(old_status, payment_status) ==
    IF is_payment_successful(payment_status) THEN "payment_approved"
    ELSE IF is_payment_failed(payment_status) THEN "payment_failed"
    ELSE IF is_payment_pending(payment_status) THEN "payment_pending"
    ELSE old_status

\* lines 185-195: the branch the if / elif chain takes
HandlerOf(payment_status) ==
    IF is_payment_successful(payment_status) THEN "_handle_payment_success"
    ELSE IF is_payment_failed(payment_status) THEN "_handle_payment_failure"
    ELSE IF is_payment_pending(payment_status) THEN "_handle_payment_pending"
    ELSE None

\* get_payment_status_message: status_messages.get(status, ...), a message
\* being the sequence of its sentences
status_messages(status) ==
    CASE status = "approved" -> "Pago aprobado"
      [] status = "pending" -> "Tu pago esta siendo procesado"
      [] status = "in_process" -> "Tu pago esta en proceso de verificacion"
      [] status = "rejected" -> "Tu pago fue rechazado"
      [] status = "cancelled" -> "El pago fue cancelado"
      [] status = "refunded" -> "Tu pago ha sido reembolsado"
      [] status = "charged_back" -> "Se ha procesado una devolucion del cargo"
      [] OTHER -> "Estado de pago desconocido"

\* the keys of detail_messages
KnownDetails ==
    {"cc_rejected_insufficient_amount", "cc_rejected_bad_filled_card_number",
     "cc_rejected_bad_filled_date", "cc_rejected_bad_filled_security_code",
     "cc_rejected_card_disabled", "cc_rejected_call_for_authorize",
     "cc_rejected_duplicated_payment"}

detail_messages(status_detail) ==
    CASE status_detail = "cc_rejected_insufficient_amount" -> "Fondos insuficientes en la tarjeta"
      [] status_detail = "cc_rejected_bad_filled_card_number" -> "Numero de tarjeta incorrecto"
      [] status_detail = "cc_rejected_bad_filled_date" -> "Fecha de vencimiento incorrecta"
      [] status_detail = "cc_rejected_bad_filled_security_code" -> "Codigo de seguridad incorrecto"
      [] status_detail = "cc_rejected_card_disabled" -> "La tarjeta esta deshabilitada"
      [] status_detail = "cc_rejected_call_for_authorize" -> "Debes autorizar el pago con tu banco"
      [] OTHER -> "Pago duplicado detectado"

\* payment_data.get("status_detail", ""): "" when the key is missing
NoDetail == ""

get_payment_status_message(status, status_detail) ==
    LET base_message == <<status_messages(status)>>
    IN IF status = "rejected" /\ status_detail # NoDetail
          /\ status_detail \in KnownDetails
       THEN base_message \o <<detail_messages(status_detail)>>
       ELSE base_message

\* lines 527-531: the status handed to get_payment_status_message is
\* PaymentStatus.REJECTED, whatever status the update carries
failure_reason(payment_status, status_detail) ==
    get_payment_status_message("rejected", status_detail)

\* the status details a webhook may carry: none, a known code, an unknown one
StatusDetails == {NoDetail, "cc_rejected_insufficient_amount", "cc_rejected_other_reason"}

\* the message the branch handler sends, if any
HandlerMessage(payment_status) ==
    IF is_payment_successful(payment_status) THEN "payment_confirmation"
    ELSE IF is_payment_failed(payment_status) THEN "payment_failure"
    ELSE None

\* faulty variant: the cart is not cleared
handle_payment_success_keeps_cart(cs, cid) ==
    update_conversation_state(cs, cid, "payment_completed")

\* _handle_payment_success: conversation completed, cart cleared
handle_payment_success(cs, cid) ==
    clear_cart(update_conversation_state(cs, cid, "payment_completed"), cid)

\* faulty variant: a failed payment leaves the conversation waiting
handle_payment_failure_as_pending(cs, cid) ==
    update_conversation_state(cs, cid, "payment_pending")

\* _handle_payment_failure
handle_payment_failure(cs, cid) ==
    update_conversation_state(cs, cid, "payment_failed")

\* faulty variant: a pending payment empties the cart
handle_payment_pending_clears_cart(cs, cid) ==
    clear_cart(update_conversation_state(cs, cid, "payment_pending"), cid)

\* _handle_payment_pending
handle_payment_pending(cs, cid) ==
    update_conversation_state(cs, cid, "payment_pending")

HandlerConversation(cs, cid, payment_status) ==
    IF is_payment_successful(payment_status) THEN handle_payment_success(cs, cid)
    ELSE IF is_payment_failed(payment_status) THEN handle_payment_failure(cs, cid)
    ELSE IF is_payment_pending(payment_status) THEN handle_payment_pending(cs, cid)
    ELSE cs

Bucketed(payment_status) ==
    \/ is_payment_successful(payment_status)
    \/ is_payment_failed(payment_status)
    \/ is_payment_pending(payment_status)

\* what the collaborators may do during one status update: serve every
\* call, report the message as not sent, or raise from the conversation
\* state update, from the cart clearing or from the final store update
UpdateFaults == {"none", "undelivered", "conversation", "cart", "store"}

\* the exception that leaves the branch handler, if any: the handlers call
\* the conversation manager without a try of their own
HandlerRaises(payment_status, fault) ==
    \/ fault = "conversation" /\ Bucketed(payment_status)
    \/ fault = "cart" /\ is_payment_successful(payment_status)

\* the conversation as the branch handler leaves it, raised or not
HandlerConversationUnder(cs, cid, payment_status, fault) ==
    IF fault = "conversation" THEN cs
    ELSE IF fault = "cart" /\ is_payment_successful(payment_status)
    THEN update_conversation_state(cs, cid, "payment_completed")
    ELSE HandlerConversation(cs, cid, payment_status)

\* the exception the handler at line 210 catches, None when there is none
UpdateError(old_status, payment_status, fault) ==
    IF StatusUpdateRaises(old_status, payment_status) THEN "ValueError"
    ELSE IF HandlerRaises(payment_status, fault) THEN "ConversationError"
    ELSE IF fault = "store" THEN "StoreError"
    ELSE None

\* faulty variant: a message that could not be sent fails the update
UpdateResultNeedsDelivery(error, delivered) ==
    error = None /\ delivered # "failed"

\* lines 208 and 217: True at the end of the try, False from the handler
UpdateResult(error, delivered) == error = None

\* process_payment_status_update(payment_id, payment_status, payment_data),
\* the payment data carrying the status detail
ProcessPaymentStatusUpdateWith(pid, payment_status, status_detail, fault) ==
    /\ ops < MaxOps
    /\ ops' = ops + 1
    /\ LET ids == store_ids_by_payment_id(flows, pid)
           called == [NoLast EXCEPT !.op = "update", !.payment_id = pid,
                                    !.payment_status = payment_status,
                                    !.status_detail = status_detail]
       IN IF ids = {}
          THEN /\ last' = [called EXCEPT !.ret = MissingFlowResult]
               /\ UNCHANGED <<flows, convs>>
          ELSE LET fid == CHOOSE f \in ids : TRUE
                   old == flows[fid]
                   cid == old.conversation_id
                   seen == [called EXCEPT
                               !.flow_id = fid,
                               !.old_status = old.status,
                               !.duplicate = /\ last.op = "update"
                                             /\ last.flow_id = fid
                                             /\ last.ret = TRUE
                                             /\ old.payment_status = payment_status,
                               !.had_cart = convs[cid].cart_items # << >>]
                   error == UpdateError(old.status, payment_status, fault)
                   message == IF error = "ValueError" THEN None
                              ELSE HandlerMessage(payment_status)
                   delivered == IF message = None THEN None
                                ELSE IF fault = "undelivered" THEN "failed"
                                ELSE "sent"
               IN /\ convs' = IF error = "ValueError" THEN convs
                               ELSE HandlerConversationUnder(convs, cid,
                                                             payment_status, fault)
                  /\ flows' = IF error # None THEN flows
                               ELSE store_put(flows,
                                      [old EXCEPT !.payment_status = payment_status,
                                                  !.payment_data = [status |-> payment_status],
                                                  !.updated_at = now,
                                                  !.status = NewFlowStatus(old.status, payment_status)])
                  /\ last' = [seen EXCEPT
                                 !.ret = UpdateResult(error, delivered),
                                 !.error = error,
                                 !.handler = IF error = "ValueError" THEN None
                                             ELSE HandlerOf(payment_status),
                                 !.message = message,
                                 !.recipient = IF message = None THEN << >>
                                               ELSE old.customer_phone,
                                 !.total_amount =
                                     IF message = "payment_confirmation"
                                     THEN confirmation_message_total(old)
                                     ELSE NoNumber,
                                 !.reason = IF message = "payment_failure"
                                            THEN failure_reason(payment_status,
                                                                status_detail)
                                            ELSE << >>,
                                 !.delivered = delivered]
    /\ UNCHANGED <<now, inv, prefs, payments, events, session, bird_context, bird>>

\* a status update whose payment data holds no status detail
ProcessPaymentStatusUpdate(pid, payment_status, fault) ==
    ProcessPaymentStatusUpdateWith(pid, payment_status, NoDetail, fault)

(***************************************************************************)
(* cancel_payment_flow                                                     *)
(***************************************************************************)
\* faulty variant: a preference the gateway could not cancel stops the cancellation
CancelRequiresGateway(has_payment_id, gateway_ok) ==
    has_payment_id => gateway_ok

\* line 360: the gateway's answer is not looked at
CancelProceeds(has_payment_id, gateway_ok) == TRUE

\* faulty variant: cancelling a flow the store does not hold reports success
MissingCancelResultTrue == TRUE

\* line 356: a flow the store does not hold cannot be cancelled
MissingCancelResult == FALSE

\* what the store may do to the update at line 367: serve it or raise
CancelFaults == {"none", "store"}

CancelPaymentFlow(fid, reason, gateway_ok, fault) ==
    /\ ops < MaxOps
    /\ ops' = ops + 1
    /\ IF fid \notin StoredIds
       THEN /\ last' = [NoLast EXCEPT !.op = "cancel", !.target = fid,
                                      !.ret = MissingCancelResult]
            /\ UNCHANGED <<flows, convs>>
       ELSE LET old == flows[fid]
                cid == old.conversation_id
                has_pid == old.payment_id # NoId
                seen == [NoLast EXCEPT
                            !.op = "cancel", !.flow_id = fid, !.target = fid,
                            !.old_status = old.status,
                            !.gateway_ok = IF ~has_pid THEN None
                                           ELSE IF gateway_ok THEN "cancelled"
                                           ELSE "failed"]
            IN IF fault = "store"
               THEN /\ last' = [seen EXCEPT !.ret = FALSE, !.error = "StoreError"]
                    /\ UNCHANGED <<flows, convs>>
               ELSE IF CancelProceeds(has_pid, gateway_ok)
               THEN /\ flows' = store_put(flows,
                          [old EXCEPT !.status = "cancelled",
                                      !.metadata.cancellation_reason = reason,
                                      !.metadata.cancelled_at = now])
                    /\ convs' = update_conversation_state(convs, cid, "browsing")
                    /\ last' = [seen EXCEPT !.ret = TRUE]
               ELSE /\ last' = [seen EXCEPT !.ret = FALSE]
                    /\ UNCHANGED <<flows, convs>>
    /\ UNCHANGED <<now, inv, prefs, payments, events, session, bird_context, bird>>

(***************************************************************************)
(* The webhook Lambda handler and MercadoPagoClient.process_webhook_       *)
(* notification                                                            *)
(***************************************************************************)
\* a request body: text that is no JSON, or the JSON object with these
\* members (the other members of a notification are always present)
NotJson == [json |-> FALSE, type |-> None, action |-> None, data_id |-> NoId]

WebhookData(type, action, data_id) ==
    [json |-> TRUE, type |-> type, action |-> action, data_id |-> data_id]

\* "merchant_order" is a type and "updated" an action the validators of
\* WebhookNotification do not list
WebhookTypes == {"payment", "plan", "merchant_order"}
WebhookActions == {"payment.updated", "updated"}
GatewayPaymentIds == {<<"pay", 1>>}

Bodies ==
    {NotJson} \cup
    {WebhookData(type, action, data_id) :
        type \in WebhookTypes, action \in WebhookActions,
        data_id \in GatewayPaymentIds}

\* hmac.new(secret, payload, sha256).hexdigest(), taken to be free of
\* collisions
hmac_sha256(secret, payload) == <<"hmac", secret, payload>>

\* the header missing (None) or empty
NoSignature == << >>

\* settings.mercadopago_webhook_secret, configured or left empty
NoSecret == ""
Secrets == {"whsec", NoSecret}

Signatures(payload) ==
    {NoSignature, hmac_sha256("whsec", payload), hmac_sha256("guess", payload),
     hmac_sha256(NoSecret, payload)}

\* faulty variant: an empty secret is used as a key like any other
verify_webhook_signature_any_secret(payload, signature, secret) ==
    IF signature = NoSignature
    THEN FALSE
    ELSE signature = hmac_sha256(secret, payload)

verify_webhook_signature(payload, signature, secret) ==
    IF signature = NoSignature \/ secret = NoSecret
    THEN FALSE
    ELSE signature = hmac_sha256(secret, payload)

\* WebhookNotification(**webhook_data): validate_type and validate_action
valid_types == {"payment", "plan", "subscription", "invoice", "point_integration_wh"}
valid_actions == {"payment.created", "payment.updated"}

WebhookNotificationValid(webhook_data) ==
    /\ webhook_data.json
    /\ webhook_data.type \in valid_types
    /\ webhook_data.action \in valid_actions

\* faulty variant: the client reports a type it does not handle as a failure
UnhandledTypeResultFalse == FALSE

\* client.py line 297: a type other than payment is logged and accepted
UnhandledTypeResult == TRUE

\* lambda_handler(event, context), the event carrying the x-signature header
\* and the body.  For a payment notification process_payment_webhook calls
\* the coroutine function process_webhook_notification without awaiting it:
\* the coroutine object it gets is truthy and nothing of it runs; client_ok
\* tells whether get_mercadopago_client() gave a client or raised
lambda_handler(signature, body, secret, client_ok) ==
    /\ ops < MaxOps
    /\ ops' = ops + 1
    /\ LET called == [NoLast EXCEPT !.op = "lambda_handler",
                                    !.signature = signature,
                                    !.secret = secret, !.body = body]
       IN last' =
            IF ~verify_webhook_signature(body, signature, secret)
            THEN [called EXCEPT !.status_code = 401]
            ELSE IF ~body.json
            THEN [called EXCEPT !.status_code = 400]
            ELSE IF ~WebhookNotificationValid(body)
            THEN [called EXCEPT !.status_code = 400]
            ELSE IF body.type = "payment"
            THEN [called EXCEPT !.validated = TRUE,
                                !.handler = "process_payment_webhook",
                                !.status_code = IF client_ok THEN 200 ELSE 500,
                                !.ret = client_ok]
            ELSE [called EXCEPT !.validated = TRUE, !.status_code = 200]
    /\ UNCHANGED <<now, flows, convs, inv, prefs, payments, events, session, bird_context, bird>>

\* what get_payment may answer: a payment in this status, or an error
FetchedStatuses == {"approved", "rejected"}
GetPaymentFailed == None

\* _update_payment_status: update_item on the payments table; a ClientError
\* is logged and swallowed
update_payment_status(table, payment_id, status, table_ok) ==
    IF table_ok
    THEN [p \in (DOMAIN table) \cup {payment_id} |->
             IF p = payment_id THEN status ELSE table[p]]
    ELSE table

\* _send_payment_event: every exception is logged and swallowed
send_payment_event(queue, payment_id, status, sqs_ok) ==
    IF sqs_ok
    THEN Append(queue, [event_type |-> "payment_status_changed",
                        payment_id |-> payment_id, status |-> status])
    ELSE queue

\* await process_webhook_notification(webhook_data) with
\* _process_payment_webhook
process_webhook_notification(webhook_data, fetched, table_ok, sqs_ok) ==
    /\ ops < MaxOps
    /\ ops' = ops + 1
    /\ LET called == [NoLast EXCEPT !.op = "process_webhook_notification",
                                    !.body = webhook_data]
       IN IF ~WebhookNotificationValid(webhook_data)
          THEN /\ last' = [called EXCEPT !.ret = FALSE]
               /\ UNCHANGED <<payments, events, session, bird_context, bird>>
          ELSE IF webhook_data.type # "payment"
          THEN /\ last' = [called EXCEPT !.validated = TRUE,
                                         !.ret = UnhandledTypeResult]
               /\ UNCHANGED <<payments, events, session, bird_context, bird>>
          ELSE IF fetched = GetPaymentFailed
          THEN /\ last' = [called EXCEPT !.validated = TRUE, !.fetched = TRUE,
                                         !.ret = FALSE]
               /\ UNCHANGED <<payments, events, session, bird_context, bird>>
          ELSE /\ last' = [called EXCEPT !.validated = TRUE, !.fetched = TRUE,
                                         !.payment_status = fetched,
                                         !.ret = TRUE]
               /\ payments' = update_payment_status(payments, webhook_data.data_id,
                                                    fetched, table_ok)
               /\ events' = send_payment_event(events, webhook_data.data_id,
                                               fetched, sqs_ok)
    /\ UNCHANGED <<now, flows, convs, inv, prefs, session, bird_context, bird>>

(***************************************************************************)
(* The phone normalizers, applied to a phone                               *)
(***************************************************************************)
\* Customer(phone=v): the validator returns the normalized phone or raises
CustomerValidatePhone(v) ==
    /\ ops < MaxOps
    /\ ops' = ops + 1
    /\ last' = [NoLast EXCEPT
                   !.op = "Customer.validate_phone", !.phone = v,
                   !.accepted = customer_validate_phone(v),
                   !.value = IF customer_validate_phone(v)
                             THEN customer_phone_value(v) ELSE << >>]
    /\ UNCHANGED <<now, flows, convs, inv, prefs, payments, events, session, bird_context, bird>>

FormatPhoneNumberForBird(phone) ==
    /\ ops < MaxOps
    /\ ops' = ops + 1
    /\ last' = [NoLast EXCEPT
                   !.op = "format_phone_number_for_bird", !.phone = phone,
                   !.accepted = TRUE,
                   !.value = format_phone_number_for_bird(phone)]
    /\ UNCHANGED <<now, flows, convs, inv, prefs, payments, events, session, bird_context, bird>>

Tick ==
    /\ ops < MaxOps
    /\ ops' = ops + 1
    /\ now' = now + 1
    /\ UNCHANGED <<flows, convs, inv, prefs, last, payments, events, session, bird_context, bird>>

\* a webhook names a payment id the gateway issued, or one it never did
IssuedOrUnknown == {<<"pref", n>> : n \in 0..prefs}

\* a flow id no invocation ever stores under
UnknownFlowId == flow_id_of(0, "c0")

\* a cancellation or a retry names a stored flow, or one the store lacks
StoredOrUnknown == StoredIds \cup {UnknownFlowId}

Next ==
    \/ Tick
    \/ \E i \in Inv, cid \in ConvIds, phone \in Phones, items \in ItemLists :
          InitiateStart(i, cid, phone, items)
    \/ \E i \in Inv, ok \in BOOLEAN : InitiateCreate(i, ok, "none")
    \/ \E i \in Inv, ok \in BOOLEAN : InitiateSend(i, ok)
    \/ \E pid \in IssuedOrUnknown, ps \in WebhookStatuses :
          ProcessPaymentStatusUpdate(pid, ps, "none")
    \/ \E fid \in StoredOrUnknown, ok \in BOOLEAN :
          CancelPaymentFlow(fid, "user_cancellation", ok, "none")

Spec == Init /\ [][Next]_vars

(***************************************************************************)
(* The same operations with collaborators that may fail: store writes that *)
(* raise, conversation manager calls that raise, messages not delivered    *)
(***************************************************************************)
\* the faults that can show in an update carrying this payment status
FaultsFor(payment_status) ==
    {fault \in UpdateFaults :
        \/ fault = "none"
        \/ fault = "store" /\ payment_status \in PaymentStatus
        \/ fault = "undelivered" /\ HandlerMessage(payment_status) # None
        \/ HandlerRaises(payment_status, fault)}

NextFaults ==
    \/ \E i \in Inv : InitiateStart(i, "c1", PhoneCanonical, <<Camisa>>)
    \/ \E i \in Inv, ok \in BOOLEAN, fault \in CreateFaults :
          InitiateCreate(i, ok, fault)
    \/ \E i \in Inv, ok \in BOOLEAN : InitiateSend(i, ok)
    \/ \E pid \in IssuedOrUnknown, ps \in WebhookStatuses :
          \E fault \in FaultsFor(ps) :
              ProcessPaymentStatusUpdate(pid, ps, fault)
    \/ \E fid \in StoredOrUnknown, ok \in BOOLEAN, fault \in CancelFaults :
          CancelPaymentFlow(fid, "user_cancellation", ok, fault)

SpecFaults == Init /\ [][NextFaults]_vars

(***************************************************************************)
(* Retries: the store already holds a flow whose payment link could not be *)
(* sent a second ago, and flows are retried                                *)
(***************************************************************************)
FailedFlow ==
    [WithPreference(NewPaymentFlow(flow_id_of(0, "c1"), "c1", PhoneCanonical,
                                   <<Camisa>>, 0),
                    PaymentResponse(1, 0))
        EXCEPT !.status = "failed"]

InitRetry ==
    /\ now = 1
    /\ flows = store_put(<< >>, FailedFlow)
    /\ convs = [cid \in ConvIds |->
                   NewContext(IF cid = "c1" THEN "payment_requested"
                              ELSE "browsing", <<Camisa>>)]
    /\ inv = [i \in Inv |-> IdleInv]
    /\ prefs = 1
    /\ last = NoLast
    /\ payments = << >>
    /\ events = << >>
    /\ session = NewSession
    /\ bird_context = NewBirdContext
    /\ bird = NewBirdClient
    /\ ops = 0

NextRetry ==
    \/ Tick
    \/ \E i \in Inv, fid \in StoredOrUnknown,
          phone \in {PhoneCanonical, PhoneShort} :
          RetryStart(i, fid, phone)
    \/ \E i \in Inv, ok \in BOOLEAN : InitiateCreate(i, ok, "none")
    \/ \E i \in Inv, ok \in BOOLEAN : InitiateSend(i, ok)
    \/ \E i \in Inv, ok \in BOOLEAN : RetryLink(i, ok)

SpecRetry == InitRetry /\ [][NextRetry]_vars

(***************************************************************************)
(* Webhooks: the store already holds a flow whose payment link was sent,   *)
(* and status updates carrying a status detail arrive for it               *)
(***************************************************************************)
SentFlow ==
    [WithPreference(NewPaymentFlow(flow_id_of(0, "c1"), "c1", PhoneCanonical,
                                   <<Camisa>>, 0),
                    PaymentResponse(1, 0))
        EXCEPT !.status = "link_sent"]

InitUpdates ==
    /\ now = 1
    /\ flows = store_put(<< >>, SentFlow)
    /\ convs = [cid \in ConvIds |->
                   NewContext(IF cid = "c1" THEN "payment_requested"
                              ELSE "browsing", <<Camisa>>)]
    /\ inv = [i \in Inv |-> IdleInv]
    /\ prefs = 1
    /\ last = NoLast
    /\ payments = << >>
    /\ events = << >>
    /\ session = NewSession
    /\ bird_context = NewBirdContext
    /\ bird = NewBirdClient
    /\ ops = 0

NextUpdates ==
    \/ Tick
    \/ \E pid \in IssuedOrUnknown, ps \in WebhookStatuses,
          status_detail \in StatusDetails :
          ProcessPaymentStatusUpdateWith(pid, ps, status_detail, "none")
    \/ \E fid \in StoredOrUnknown, ok \in BOOLEAN :
          CancelPaymentFlow(fid, "user_cancellation", ok, "none")

SpecUpdates == InitUpdates /\ [][NextUpdates]_vars

(***************************************************************************)
(* Phones: the normalizers are applied to phones in several spellings, and *)
(* flows are initiated for them                                            *)
(***************************************************************************)
NextPhones ==
    \/ Tick
    \/ \E v \in PhoneSpellings : CustomerValidatePhone(v)
    \/ \E phone \in PhoneSpellings : FormatPhoneNumberForBird(phone)
    \/ \E i \in Inv, phone \in PhoneSpellings :
          InitiateStart(i, "c1", phone, <<Camisa>>)
    \/ \E i \in Inv : InitiateCreate(i, TRUE, "none")
    \/ \E i \in Inv : InitiateSend(i, TRUE)

SpecPhones == Init /\ [][NextPhones]_vars

(***************************************************************************)
(* Carts: flows are initiated for carts of several items, in every order,  *)
(* and paid                                                                *)
(***************************************************************************)
NextCarts ==
    \/ \E i \in Inv, cid \in ConvIds, items \in OrderedCarts :
          InitiateStart(i, cid, PhoneCanonical, items)
    \/ \E i \in Inv : InitiateCreate(i, TRUE, "none")
    \/ \E i \in Inv : InitiateSend(i, TRUE)
    \/ \E pid \in IssuedOrUnknown \ {<<"pref", 0>>} :
          ProcessPaymentStatusUpdate(pid, "approved", "none")

SpecCarts == Init /\ [][NextCarts]_vars

(***************************************************************************)
(* Webhook deliveries: requests reach the Lambda handler, and webhook data *)
(* reaches the client's process_webhook_notification                       *)
(***************************************************************************)
NextWebhooks ==
    \/ \E body \in Bodies, secret \in Secrets, client_ok \in BOOLEAN :
          \E signature \in Signatures(body) :
              lambda_handler(signature, body, secret, client_ok)
    \/ \E webhook_data \in Bodies \ {NotJson},
          fetched \in FetchedStatuses \cup {GetPaymentFailed},
          table_ok \in BOOLEAN, sqs_ok \in BOOLEAN :
          process_webhook_notification(webhook_data, fetched, table_ok, sqs_ok)

SpecWebhooks == Init /\ [][NextWebhooks]_vars

(***************************************************************************)
(* Conversations: c1 has an item in its cart, c2 was just created and has  *)
(* none; messages arrive and the initiations they start run                *)
(***************************************************************************)
InitMessages ==
    /\ now = 0
    /\ flows = << >>
    /\ convs = [cid \in ConvIds |->
                   NewContext("browsing",
                              IF cid = "c1" THEN <<Camisa>> ELSE << >>)]
    /\ inv = [i \in Inv |-> IdleInv]
    /\ prefs = 0
    /\ last = NoLast
    /\ payments = << >>
    /\ events = << >>
    /\ session = NewSession
    /\ bird_context = NewBirdContext
    /\ bird = NewBirdClient
    /\ ops = 0

NextMessages ==
    \/ \E cid \in ConvIds, text \in Texts : MessageReply(cid, text)
    \/ \E i \in Inv, cid \in ConvIds, text \in Texts : MessagePay(i, cid, text)
    \/ \E i \in Inv, ok \in BOOLEAN, fault \in CreateFaults :
          InitiateCreate(i, ok, fault)
    \/ \E i \in Inv, ok \in BOOLEAN : InitiateSend(i, ok)

SpecMessages == InitMessages /\ [][NextMessages]_vars

(***************************************************************************)
(* Lifecycle: flows are initiated for one conversation, and the flows      *)
(* stored are updated by webhooks, retried and cancelled                   *)
(***************************************************************************)
NextLifecycle ==
    \/ Tick
    \/ \E i \in Inv : InitiateStart(i, "c1", PhoneCanonical, <<Camisa>>)
    \/ \E i \in Inv : InitiateCreate(i, TRUE, "none")
    \/ \E i \in Inv, ok \in BOOLEAN : InitiateSend(i, ok)
    \/ \E i \in Inv, fid \in StoredIds : RetryStart(i, fid, PhoneCanonical)
    \/ \E i \in Inv : RetryLink(i, TRUE)
    \/ \E pid \in IssuedOrUnknown \ {<<"pref", 0>>},
          ps \in {"approved", "rejected", "pending"} :
          ProcessPaymentStatusUpdate(pid, ps, "none")
    \/ \E fid \in StoredIds :
          CancelPaymentFlow(fid, "user_cancellation", TRUE, "none")

SpecLifecycle == Init /\ [][NextLifecycle]_vars

(***************************************************************************)
(* Cart items: the carts of a ConversationSession (integration/models.py)  *)
(* and of a ConversationContext (bird/models.py) are added to, removed     *)
(* from and cleared                                                        *)
(***************************************************************************)
\* the items given to add_cart_item: two of them carry the id of Camisa, one
\* of these at another price
CamisaOne == [id |-> "sku1", quantity |-> 1, unit_price |-> 50000]
CamisaOferta == [id |-> "sku1", quantity |-> 1, unit_price |-> 45000]
CartItems == {Camisa, CamisaOne, CamisaOferta, Jean}
CartItemIds == {"sku1", "sku2", "sku9"}

\* {**item, 'added_at': datetime.now().isoformat()}
Added(item, t) ==
    [id |-> item.id, quantity |-> item.quantity,
     unit_price |-> item.unit_price, added_at |-> t]

\* next(cart_item for cart_item in cart_items if its id is item_id): the
\* position of the first such entry, 0 when there is none
existing_item(cart_items, item_id) ==
    IF \E k \in 1..Len(cart_items) : cart_items[k].id = item_id
    THEN CHOOSE k \in 1..Len(cart_items) :
             /\ cart_items[k].id = item_id
             /\ \A j \in 1..(k - 1) : cart_items[j].id # item_id
    ELSE 0

\* [item for item in cart_items if item.get('id') != item_id]
without_item(cart_items, item_id) ==
    SelectSeq(cart_items, LAMBDA item : item.id # item_id)

\* faulty variant: the total counts every entry once
update_cart_total_per_entry(cart_items) ==
    sum_from(0, [k \in 1..Len(cart_items) |->
                    [cart_items[k] EXCEPT !.quantity = 1]])

\* ConversationSession._update_cart_total
update_cart_total(cart_items) == sum_from(0, cart_items)

\* ConversationSession.add_cart_item
session_add_cart_item(item) ==
    /\ ops < MaxOps
    /\ ops' = ops + 1
    /\ LET k == existing_item(session.cart_items, item.id)
           cart_items ==
               IF k # 0
               THEN [session.cart_items EXCEPT
                        ![k].quantity = @ + item.quantity]
               ELSE Append(session.cart_items, Added(item, now))
       IN session' = [cart_items |-> cart_items,
                      cart_total |-> update_cart_total(cart_items)]
    /\ last' = [NoLast EXCEPT !.op = "ConversationSession.add_cart_item"]
    /\ UNCHANGED <<now, flows, convs, inv, prefs, payments, events, bird_context, bird>>

\* ConversationSession.remove_cart_item: the total is recomputed only when
\* an entry went away
session_remove_cart_item(item_id) ==
    /\ ops < MaxOps
    /\ ops' = ops + 1
    /\ LET cart_items == without_item(session.cart_items, item_id)
           removed == Len(cart_items) < Len(session.cart_items)
       IN /\ session' = IF removed
                        THEN [cart_items |-> cart_items,
                              cart_total |-> update_cart_total(cart_items)]
                        ELSE [session EXCEPT !.cart_items = cart_items]
          /\ last' = [NoLast EXCEPT
                         !.op = "ConversationSession.remove_cart_item",
                         !.ret = removed]
    /\ UNCHANGED <<now, flows, convs, inv, prefs, payments, events, bird_context, bird>>

\* ConversationSession.clear_cart
session_clear_cart ==
    /\ ops < MaxOps
    /\ ops' = ops + 1
    /\ session' = [cart_items |-> << >>, cart_total |-> 0]
    /\ last' = [NoLast EXCEPT !.op = "ConversationSession.clear_cart"]
    /\ UNCHANGED <<now, flows, convs, inv, prefs, payments, events, bird_context, bird>>

\* ConversationContext.add_cart_item: the item is appended
context_add_cart_item(item) ==
    /\ ops < MaxOps
    /\ ops' = ops + 1
    /\ bird_context' = [bird_context EXCEPT
                           !.cart_items = Append(@, Added(item, now))]
    /\ last' = [NoLast EXCEPT !.op = "ConversationContext.add_cart_item"]
    /\ UNCHANGED <<now, flows, convs, inv, prefs, payments, events, session, bird>>

\* ConversationContext.remove_cart_item
context_remove_cart_item(item_id) ==
    /\ ops < MaxOps
    /\ ops' = ops + 1
    /\ bird_context' = [bird_context EXCEPT
                           !.cart_items = without_item(@, item_id)]
    /\ last' = [NoLast EXCEPT !.op = "ConversationContext.remove_cart_item"]
    /\ UNCHANGED <<now, flows, convs, inv, prefs, payments, events, session, bird>>

\* ConversationContext.clear_cart
context_clear_cart ==
    /\ ops < MaxOps
    /\ ops' = ops + 1
    /\ bird_context' = [bird_context EXCEPT !.cart_items = << >>]
    /\ last' = [NoLast EXCEPT !.op = "ConversationContext.clear_cart"]
    /\ UNCHANGED <<now, flows, convs, inv, prefs, payments, events, session, bird>>

NextCartItems ==
    \/ Tick
    \/ \E item \in CartItems : session_add_cart_item(item)
    \/ \E item_id \in CartItemIds : session_remove_cart_item(item_id)
    \/ session_clear_cart
    \/ \E item \in CartItems : context_add_cart_item(item)
    \/ \E item_id \in CartItemIds : context_remove_cart_item(item_id)
    \/ context_clear_cart

SpecCartItems == Init /\ [][NextCartItems]_vars

(***************************************************************************)
(* The Bird client: payment messages are sent through one BirdAPIClient,   *)
(* which authenticates before each of them                                 *)
(***************************************************************************)
\* token_data.get('expires_in', 3600), in seconds
ExpiresIn == {1, 3600}

\* lines 77-79 of _authenticate: the test of the cached token.  Line 103
\* stores datetime.now(timezone.utc).timestamp() + expires_in, a float, and
\* datetime < float raises TypeError; a datetime is never stored
cached_token_check(client, t) ==
    IF client.access_token = None \/ client.token_expires_at = NoNumber
    THEN "absent"
    ELSE IF client.expires_kind = "float"
    THEN "TypeError"
    ELSE IF t < client.token_expires_at THEN "valid" ELSE "expired"

\* _authenticate: its outcome (true, false, or the exception that leaves
\* it) and the client after it; auth_ok tells whether /auth/token answers
\* 200
authenticate(client, t, auth_ok, expires_in) ==
    LET check == cached_token_check(client, t)
    IN IF check = "valid" THEN [ret |-> "true", client |-> client]
       ELSE IF check = "TypeError" THEN [ret |-> "TypeError", client |-> client]
       ELSE IF auth_ok
       THEN [ret |-> "true",
             client |-> [access_token |-> "token",
                         token_expires_at |-> t + expires_in,
                         expires_kind |-> "float",
                         requests |-> client.requests + 1]]
       ELSE [ret |-> "false",
             client |-> [client EXCEPT !.requests = @ + 1]]

\* send_payment_link_message / send_payment_confirmation_message /
\* send_payment_failure_message: authenticate, build the template, send;
\* every exception is logged and turned into False
bird_send(kind, auth_ok, expires_in, delivered) ==
    /\ ops < MaxOps
    /\ ops' = ops + 1
    /\ LET auth == authenticate(bird, now, auth_ok, expires_in)
           called == [NoLast EXCEPT !.op = "bird_send", !.message = kind]
       IN /\ bird' = auth.client
          /\ last' =
               IF auth.ret = "true"
               THEN [called EXCEPT !.delivered = IF delivered THEN "sent"
                                                 ELSE "failed",
                                   !.ret = delivered]
               ELSE [called EXCEPT !.error = IF auth.ret = "false"
                                             THEN "BirdError" ELSE auth.ret,
                                   !.ret = FALSE]
    /\ UNCHANGED <<now, flows, convs, inv, prefs, payments, events, session, bird_context>>

NextBird ==
    \/ Tick
    \/ \E kind \in MsgKinds, auth_ok \in BOOLEAN, expires_in \in ExpiresIn,
          delivered \in BOOLEAN :
          bird_send(kind, auth_ok, expires_in, delivered)

SpecBird == Init /\ [][NextBird]_vars

(***************************************************************************)
(* Properties                                                              *)
(***************************************************************************)
Terminal(status) == is_completed(status) \/ is_failed(status)

\* the four status buckets of the data model
Bucket(status) ==
    IF status \in {"initiated", "preference_created", "link_sent"} THEN "pre_payment"
    ELSE IF status = "payment_pending" THEN "awaiting"
    ELSE IF is_completed(status) THEN "success"
    ELSE "failure"

FlowOf(pid) == CHOOSE f \in store_ids_by_payment_id(flows, pid) : TRUE

\* the steps of the two operations that run to completion in one step: they
\* alone consume an event while the clock and every invocation stand still
UpdateStep ==
    /\ ops' = ops + 1 /\ now' = now /\ inv' = inv
    /\ last'.op = "update"

CancelStep ==
    /\ ops' = ops + 1 /\ now' = now /\ inv' = inv
    /\ last'.op = "cancel"

Tracked(pid) == store_ids_by_payment_id(flows, pid) # {}

\* C1: a status update never moves a flow that is in a terminal status to
\* another bucket (a pending update after an approved one leaves the flow
\* payment_approved).
C1_TerminalNeverRegresses ==
    [][UpdateStep =>
          \A f \in DOMAIN flows :
              Terminal(flows[f].status) =>
                  Bucket(flows'[f].status) = Bucket(flows[f].status)]_vars

\* C2: no conversation ever has two stored flows that are both active.
C2_OneActiveFlowPerConversation ==
    \A cid \in ConvIds :
        Cardinality({f \in DOMAIN flows :
                        /\ flows[f].conversation_id = cid
                        /\ is_active(flows[f].status)}) <= 1

\* C3: when the preference was created and the payment link was sent,
\* initiate_payment_flow returns a flow in status link_sent that carries the
\* gateway response's id, transaction id, checkout url and expiration, and
\* the stored flow is in status link_sent too.
C3_LinkSentOnSuccess ==
    [][\A i \in Inv :
          (inv[i].pc = "send" /\ inv'[i].pc = "done" /\ inv'[i].link_sent = "sent") =>
              /\ inv'[i].result = "returned"
              /\ inv'[i].payment_flow.status = "link_sent"
              /\ inv'[i].payment_flow.payment_id = inv[i].response.id
              /\ inv'[i].payment_flow.transaction_id = inv[i].response.transaction_id
              /\ inv'[i].payment_flow.checkout_url = inv[i].response.checkout_url
              /\ inv'[i].payment_flow.expires_at = inv[i].response.expires_at
              /\ inv[i].response # NoResponse
              /\ inv[i].flow_id \in DOMAIN flows'
              /\ flows'[inv[i].flow_id].status = "link_sent"]_vars

C3_Witness ==
    \E i \in Inv :
        /\ inv[i].pc = "done" /\ inv[i].result = "returned"
        /\ inv[i].link_sent = "sent"
        /\ inv[i].flow_id \in DOMAIN flows
        /\ flows[inv[i].flow_id].status = "link_sent"
        /\ flows[inv[i].flow_id].payment_id = inv[i].response.id

\* C4: an approved update for the payment id of an initiated flow leaves the
\* flow payment_approved, the conversation's cart empty and the conversation
\* in state payment_completed.
C4_ApprovedCompletesConversation ==
    [][(UpdateStep /\ last'.payment_status = "approved"
                   /\ Tracked(last'.payment_id)) =>
          LET f == FlowOf(last'.payment_id)
              cid == flows[f].conversation_id
          IN /\ flows'[f].status = "payment_approved"
             /\ convs'[cid].cart_items = << >>
             /\ convs'[cid].current_state = "payment_completed"]_vars

C4_Witness ==
    /\ last.op = "update" /\ last.ret
    /\ last.old_status = "link_sent" /\ last.had_cart
    /\ last.flow_id \in DOMAIN flows
    /\ flows[last.flow_id].payment_status = "approved"
    /\ flows[last.flow_id].status = "payment_approved"
    /\ \E i \in Inv : inv[i].result = "returned" /\ inv[i].flow_id = last.flow_id
    /\ convs[flows[last.flow_id].conversation_id].cart_items = << >>
    /\ convs[flows[last.flow_id].conversation_id].current_state = "payment_completed"

\* C5: every approved update for a tracked flow returns true, and one
\* applied to a flow that an approved update already left payment_approved
\* returns true as well and leaves the stored status and payment status as
\* they were.
C5_DuplicateApprovedIdempotent ==
    [][(UpdateStep /\ last'.payment_status = "approved"
                   /\ Tracked(last'.payment_id)) =>
          LET f == FlowOf(last'.payment_id)
          IN /\ last'.ret = TRUE
             /\ (flows[f].payment_status = "approved"
                   /\ flows[f].status = "payment_approved")
                    => /\ flows'[f].status = flows[f].status
                       /\ flows'[f].payment_status = flows[f].payment_status
                       /\ flows'[f].payment_data = flows[f].payment_data]_vars

C5_Witness ==
    /\ last.op = "update" /\ last.ret /\ last.duplicate
    /\ last.old_status = "payment_approved"
    /\ flows[last.flow_id].payment_status = "approved"
    /\ flows[last.flow_id].status = "payment_approved"

\* C6: a status update for a payment id that no stored flow carries returns
\* true, sends no message and changes neither store, whatever the status.
C6_UnknownPaymentIdIsNoOp ==
    [][(UpdateStep /\ ~Tracked(last'.payment_id)) =>
          /\ last'.ret = TRUE
          /\ last'.message = None
          /\ flows' = flows
          /\ convs' = convs]_vars

C6_Witness ==
    /\ last.op = "update" /\ last.ret
    /\ last.payment_status = "approved"
    /\ ~Tracked(last.payment_id)
    /\ DOMAIN flows # {}

\* C7: cancelling a stored flow that is not in a terminal status leaves it
\* cancelled and its conversation browsing and returns true, whether the
\* gateway cancelled the preference or failed to.
C7_CancelDespiteGatewayFailure ==
    [][\A fid \in DOMAIN flows :
          (CancelStep /\ last'.flow_id = fid
             /\ ~Terminal(flows[fid].status)) =>
              /\ flows'[fid].status = "cancelled"
              /\ convs'[flows[fid].conversation_id].current_state = "browsing"
              /\ last'.ret = TRUE]_vars

C7_Witness ==
    /\ last.op = "cancel" /\ last.ret /\ last.gateway_ok = "failed"
    /\ last.old_status \in {"preference_created", "link_sent", "payment_pending"}
    /\ flows[last.flow_id].status = "cancelled"
    /\ convs[flows[last.flow_id].conversation_id].current_state = "browsing"

\* C8: two distinct initiate_payment_flow invocations never generate the
\* same flow id.
C8_FlowIdsUnique ==
    \A i, j \in Inv :
        (i # j /\ inv[i].flow_id # NoId /\ inv[j].flow_id # NoId) =>
            inv[i].flow_id # inv[j].flow_id

\* C9: the status write that ends an initiation does not overwrite a status
\* that a status update or a cancellation wrote to the flow record after the
\* initiation stored it.
C9_InitiationDoesNotOverwrite ==
    [][\A i \in Inv :
          (inv[i].pc = "send" /\ inv'[i].pc = "done"
             /\ inv[i].flow_id \in DOMAIN flows
             /\ flows[inv[i].flow_id].status \in
                   {"payment_approved", "payment_failed", "payment_pending",
                    "cancelled"}) =>
              flows'[inv[i].flow_id].status = flows[inv[i].flow_id].status]_vars

\* C10: when the preference was created and sending the payment link fails,
\* the flow is stored with status failed and the invocation raises an
\* IntegrationError.
C10_SendFailureMarksFailed ==
    [][\A i \in Inv :
          (inv[i].pc = "send" /\ inv'[i].pc = "done"
             /\ inv'[i].link_sent = "failed") =>
              /\ inv'[i].result = "IntegrationError"
              /\ inv[i].flow_id \in DOMAIN flows'
              /\ flows'[inv[i].flow_id].status = "failed"]_vars

C10_Witness ==
    \E i \in Inv :
        /\ inv[i].pc = "done" /\ inv[i].link_sent = "failed"
        /\ inv[i].result = "IntegrationError"
        /\ flows[inv[i].flow_id].status = "failed"

\* C11: an initiation whose create_preference raised a PaymentError raises
\* that PaymentError itself, also when the best-effort write of status
\* failed was lost to a store failure; an exception that is none of
\* PaymentError, BirdError, IntegrationError is raised as IntegrationError.
C11_GatewayErrorUnwrapped ==
    \A i \in Inv :
        (inv[i].pc = "done" /\ inv[i].error # None) =>
            /\ inv[i].error = "PaymentError" => inv[i].result = "PaymentError"
            /\ inv[i].error \notin {"PaymentError", "BirdError", "IntegrationError"}
                  => inv[i].result = "IntegrationError"

C11_Witness ==
    /\ \E i \in Inv :
          /\ inv[i].pc = "done" /\ inv[i].error = "PaymentError"
          /\ inv[i].mark = "lost" /\ inv[i].result = "PaymentError"
    /\ \E j \in Inv :
          /\ inv[j].pc = "done" /\ inv[j].error = "StoreError"
          /\ inv[j].result = "IntegrationError"

\* C12: an initiation called with an empty items list fails with
\* ValidationError, and no gateway preference was created and no payment
\* link sent for it.
C12_EmptyItemsValidationError ==
    [][\A i \in Inv :
          (inv[i].pc = "create" /\ inv[i].items = << >> /\ inv'[i].pc # "create") =>
              /\ inv'[i].pc = "done"
              /\ inv'[i].result = "ValidationError"
              /\ prefs' = prefs
              /\ inv'[i].link_sent = None]_vars

\* C13: a status update that found the flow and whose status is in one of
\* the three buckets stores the flow with the new status, payment status
\* and payment data, however the branch handler ended: message delivered or
\* not, conversation update or cart clearing raised or not.
C13_PersistedWhateverTheHandler ==
    [][(UpdateStep /\ Tracked(last'.payment_id)
                   /\ Bucketed(last'.payment_status)
                   /\ last'.error \in {None, "ConversationError"}) =>
          LET f == FlowOf(last'.payment_id)
              ps == last'.payment_status
          IN /\ flows'[f].status = NewFlowStatus(flows[f].status, ps)
             /\ flows'[f].payment_status = ps
             /\ flows'[f].payment_data = [status |-> ps]]_vars

\* C14: a status update on a tracked flow whose success, failure or pending
\* branch ran to its end returns true, also when the confirmation or failure
\* message was not delivered; it returns false only when an exception was
\* caught by the operation's handler, and its result is always a boolean.
C14_UpdateTrueUnlessException ==
    last.op = "update" =>
        /\ last.ret \in BOOLEAN
        /\ (last.flow_id # NoId /\ Bucketed(last.payment_status)
               /\ last.error = None) => last.ret = TRUE
        /\ last.delivered = "failed" /\ last.error = None => last.ret = TRUE
        /\ last.ret = FALSE => last.error # None

C14_Witness ==
    /\ last.op = "update" /\ last.ret
    /\ last.message = "payment_confirmation" /\ last.delivered = "failed"
    /\ last.flow_id \in DOMAIN flows
    /\ flows[last.flow_id].status = "payment_approved"

\* C15, as first stated: every status update on a tracked flow runs exactly
\* one of the three branch handlers.
C15_ExactlyOneHandlerPerUpdate ==
    [][(UpdateStep /\ Tracked(last'.payment_id)
                   /\ last'.payment_status \in PaymentStatus) =>
          last'.handler # None]_vars

\* C15: a status update on a tracked flow sets the status to
\* payment_approved and runs the success handler exactly for approved and
\* authorized, to payment_failed with the failure handler exactly for
\* rejected and cancelled, to payment_pending with the pending handler
\* exactly for pending and in_process; no status is in two buckets; for any
\* other payment status no handler runs and the flow status stays.
C15_StatusClassification ==
    [][(UpdateStep /\ Tracked(last'.payment_id)
                   /\ last'.payment_status \in PaymentStatus) =>
          LET f == FlowOf(last'.payment_id)
              ps == last'.payment_status
              became(status, handler) ==
                  flows'[f].status = status /\ last'.handler = handler
          IN /\ ps \in {"approved", "authorized"}
                   <=> became("payment_approved", "_handle_payment_success")
             /\ ps \in {"rejected", "cancelled"}
                   <=> became("payment_failed", "_handle_payment_failure")
             /\ ps \in {"pending", "in_process"}
                   <=> became("payment_pending", "_handle_payment_pending")
             /\ ps \in {"in_mediation", "refunded", "charged_back"}
                   <=> (flows'[f].status = flows[f].status /\ last'.handler = None)
             /\ Cardinality({b \in {1, 2, 3} :
                               \/ b = 1 /\ is_payment_successful(ps)
                               \/ b = 2 /\ is_payment_failed(ps)
                               \/ b = 3 /\ is_payment_pending(ps)}) <= 1]_vars

C15_Witness ==
    /\ last.op = "update" /\ last.ret
    /\ last.payment_status = "authorized"
    /\ last.handler = "_handle_payment_success"
    /\ last.old_status = "payment_pending"
    /\ last.flow_id \in DOMAIN flows
    /\ flows[last.flow_id].status = "payment_approved"

\* the retry_attempt a stored flow carries, 0 when it has none
AttemptOf(flow) ==
    IF flow.metadata.retry_attempt = NoNumber THEN 0
    ELSE flow.metadata.retry_attempt

\* C16: when retry_failed_payment(F, P) returns true, the flow it stored
\* (under an id other than F) has the items of F, metadata.original_flow_id
\* = F and metadata.retry_attempt one more than the retry_attempt of F (1
\* when F has none), so that along a chain of retries retry_attempt grows.
C16_RetryLineage ==
    [][\A i \in Inv :
          (inv[i].pc = "link" /\ inv'[i].retry_ret = "true"
             /\ inv[i].flow_id # inv[i].retry_of
             /\ inv[i].retry_of \in DOMAIN flows') =>
              LET new == flows'[inv[i].flow_id]
                  original == flows'[inv[i].retry_of]
              IN /\ new.items = original.items
                 /\ new.metadata.original_flow_id = inv[i].retry_of
                 /\ new.metadata.retry_attempt = AttemptOf(original) + 1]_vars

\* C17: retry_failed_payment never raises: its result is true or false; it
\* is false when the original flow is not in the store and when the
\* initiation it made raised; it is true only when the initiation returned
\* a flow and that flow was stored with its lineage metadata.
C17_RetryNeverRaises ==
    [][\A i \in Inv :
          (inv[i].pc # "done" /\ inv'[i].pc = "done" /\ inv'[i].retry_of # NoId) =>
              /\ inv'[i].retry_ret \in {"true", "false"}
              /\ inv'[i].retry_of \notin DOMAIN flows => inv'[i].retry_ret = "false"
              /\ inv'[i].result \notin {None, "returned"} => inv'[i].retry_ret = "false"
              /\ inv'[i].retry_ret = "true" =>
                    /\ inv'[i].result = "returned"
                    /\ inv'[i].response # NoResponse
                    /\ inv'[i].flow_id \in DOMAIN flows'
                    /\ flows'[inv'[i].flow_id].metadata.original_flow_id
                          = inv'[i].retry_of]_vars

C17_Witness ==
    /\ \E i \in Inv :
          /\ inv[i].pc = "done" /\ inv[i].retry_of = UnknownFlowId
          /\ inv[i].retry_ret = "false"
    /\ \E j \in Inv :
          /\ inv[j].pc = "done" /\ inv[j].retry_of \in DOMAIN flows
          /\ inv[j].result = "PaymentError" /\ inv[j].retry_ret = "false"
    /\ \E k \in Inv :
          /\ inv[k].pc = "done" /\ inv[k].link_sent = "failed"
          /\ inv[k].result = "IntegrationError" /\ inv[k].retry_ret = "false"

\* C18: cancelling a flow_id the store does not hold returns false, calls
\* the gateway not at all and changes neither the flow store nor the
\* conversation store; a cancellation returns false only for a flow the
\* store does not hold or when an exception was caught.
C18_CancelMissingFlow ==
    [][CancelStep =>
          /\ last'.target \notin DOMAIN flows =>
                /\ last'.ret = FALSE
                /\ last'.gateway_ok = None
                /\ flows' = flows
                /\ convs' = convs
          /\ last'.ret = FALSE =>
                \/ last'.target \notin DOMAIN flows
                \/ last'.error # None]_vars

C18_Witness ==
    /\ last.op = "cancel" /\ last.ret = FALSE
    /\ last.target = UnknownFlowId /\ last.target \notin DOMAIN flows
    /\ last.gateway_ok = None /\ last.error = None
    /\ DOMAIN flows # {}

\* a step in which handle_conversation_message took a message
MessageStep ==
    /\ ops' = ops + 1
    /\ now' = now
    /\ last'.op = "message"

\* C19: a message with a payment keyword is handled as a payment intent
\* even when it also holds a cart or a product keyword; the cart-action
\* branch runs only when no payment keyword matches, and the
\* product-inquiry branch only when neither a payment nor a cart keyword
\* matches.
C19_PaymentIntentFirst ==
    last.op = "message" =>
        LET message_text == Lower(last.text) IN
        /\ is_payment_intent(message_text) =>
              last.branch = "_handle_payment_intent"
        /\ last.branch = "_handle_cart_action" =>
              /\ ~is_payment_intent(message_text)
              /\ is_cart_action(message_text)
        /\ last.branch = "_handle_product_inquiry" =>
              /\ ~is_payment_intent(message_text)
              /\ ~is_cart_action(message_text)
              /\ is_product_inquiry(message_text)

C19_Witness ==
    /\ last.op = "message" /\ last.text = Text2
    /\ is_payment_intent(last.text) /\ is_cart_action(last.text)
    /\ last.branch = "_handle_payment_intent"
    /\ last.conversation_id = "c1"
    /\ convs["c1"].cart_items = <<Camisa>>

\* C20: a payment-intent message for a conversation whose cart is empty
\* is answered with the informational text; no flow is created, no gateway
\* preference is created, no message is sent and the flow store is
\* unchanged.
C20_EmptyCartPaymentIntent ==
    [][(/\ MessageStep
        /\ last'.branch = "_handle_payment_intent"
        /\ convs[last'.conversation_id].cart_items = << >>) =>
          /\ last'.response = "cart_empty_text"
          /\ flows' = flows
          /\ prefs' = prefs
          /\ inv' = inv
          /\ last'.message = None
          /\ convs' = convs]_vars

C20_Witness ==
    /\ last.op = "message" /\ last.conversation_id = "c2"
    /\ is_payment_intent(Lower(last.text))
    /\ convs["c2"].cart_items = << >>
    /\ last.response = "cart_empty_text"
    /\ DOMAIN flows # {}

\* C21: a payment-intent message for a conversation with items in its cart
\* calls initiate_payment_flow with the cart's items; when that call raises,
\* whatever the exception, the answer is the apology text and nothing is
\* propagated.
C21_PaymentIntentInitiates ==
    [][\A i \in Inv :
          /\ (/\ MessageStep
              /\ last'.branch = "_handle_payment_intent"
              /\ convs[last'.conversation_id].cart_items # << >>
              /\ inv[i].pc = "idle" /\ inv'[i].pc # "idle") =>
                 /\ inv'[i].caller = "message"
                 /\ inv'[i].pc = "create"
                 /\ inv'[i].conversation_id = last'.conversation_id
                 /\ inv'[i].items = convs[last'.conversation_id].cart_items
          /\ (/\ inv'[i].caller = "message"
              /\ inv[i].pc # "done" /\ inv'[i].pc = "done"
              /\ inv'[i].error # None) =>
                 /\ inv'[i].reply = "apology_text"
                 /\ inv'[i].result \in {"PaymentError", "IntegrationError"}]_vars

C21_Witness ==
    /\ \E i \in Inv :
          /\ inv[i].caller = "message" /\ inv[i].pc = "done"
          /\ inv[i].error = "PaymentError" /\ inv[i].reply = "apology_text"
    /\ \E j \in Inv :
          /\ inv[j].caller = "message" /\ inv[j].pc = "done"
          /\ inv[j].error = "StoreError" /\ inv[j].reply = "apology_text"
    /\ \E k \in Inv :
          /\ inv[k].caller = "message" /\ inv[k].pc = "done"
          /\ inv[k].link_sent = "failed" /\ inv[k].reply = "apology_text"

\* C22: a rejected or cancelled update for a tracked flow sends a failure
\* message to the flow's customer_phone, sets the conversation's
\* current_state to payment_failed, and the flow is stored with status
\* payment_failed.
C22_FailedUpdate ==
    [][(/\ UpdateStep
        /\ last'.payment_status \in {"rejected", "cancelled"}
        /\ Tracked(last'.payment_id)) =>
          LET f == FlowOf(last'.payment_id) IN
          /\ last'.message = "payment_failure"
          /\ last'.recipient = flows[f].customer_phone
          /\ convs'[flows[f].conversation_id].current_state = "payment_failed"
          /\ flows'[f].status = "payment_failed"]_vars

C22_Witness ==
    /\ last.op = "update" /\ last.payment_status = "cancelled"
    /\ last.flow_id \in DOMAIN flows
    /\ last.old_status = "payment_pending"
    /\ last.message = "payment_failure"
    /\ last.recipient = PhoneCanonical
    /\ flows[last.flow_id].status = "payment_failed"
    /\ convs[flows[last.flow_id].conversation_id].current_state = "payment_failed"

\* C23: a pending or in_process update for a tracked flow sets the
\* conversation's current_state to payment_pending, sends no outbound
\* message and leaves the conversation's cart unchanged.
C23_PendingUpdate ==
    [][(/\ UpdateStep
        /\ last'.payment_status \in {"pending", "in_process"}
        /\ Tracked(last'.payment_id)) =>
          LET cid == flows[FlowOf(last'.payment_id)].conversation_id IN
          /\ convs'[cid].current_state = "payment_pending"
          /\ last'.message = None
          /\ convs'[cid].cart_items = convs[cid].cart_items]_vars

C23_Witness ==
    /\ last.op = "update" /\ last.payment_status = "in_process"
    /\ last.flow_id \in DOMAIN flows
    /\ last.message = None /\ last.had_cart
    /\ convs[flows[last.flow_id].conversation_id].current_state = "payment_pending"
    /\ convs[flows[last.flow_id].conversation_id].cart_items = <<Camisa>>

\* C24: for a failed update the reason given to the customer is derived
\* from the received status (rejected or cancelled) and the status detail:
\* a known detail code extends the generic message of that status, an
\* unknown or missing one yields exactly the generic message of that status.
C24_FailureReason ==
    [][(UpdateStep /\ last'.message = "payment_failure") =>
          LET generic == status_messages(last'.payment_status)
              reason == last'.reason
          IN IF last'.status_detail \in KnownDetails
             THEN /\ Len(reason) = 2
                  /\ reason[1] = generic
                  /\ reason[2] = detail_messages(last'.status_detail)
             ELSE reason = <<generic>>]_vars

\* the steps of the webhook handler and of the client's webhook processing
HandlerStep ==
    /\ ops' = ops + 1
    /\ last'.op = "lambda_handler"

ClientStep ==
    /\ ops' = ops + 1
    /\ last'.op = "process_webhook_notification"

RECURSIVE SumOver(_, _)
SumOver(items, positions) ==
    IF positions = {} THEN 0
    ELSE LET k == CHOOSE p \in positions : \A q \in positions : p >= q
         IN items[k].quantity * items[k].unit_price
            + SumOver(items, positions \ {k})

\* two item lists holding the same items, each as often, in any order
SameItems(items1, items2) ==
    /\ Len(items1) = Len(items2)
    /\ \A k \in 1..Len(items1) :
          Cardinality({p \in 1..Len(items1) : items1[p] = items1[k]})
            = Cardinality({p \in 1..Len(items2) : items2[p] = items1[k]})

\* C26: for item lists with quantity >= 1 and unit_price > 0, a flow's
\* total_amount is the sum of quantity x unit_price over its items, is the
\* same for every permutation of the items, and the total placed in the
\* payment-link and confirmation messages equals the flow's total_amount.
C26_TotalAmount ==
    [][/\ \A f \in DOMAIN flows' :
             /\ total_amount(flows'[f])
                   = SumOver(flows'[f].items, 1..Len(flows'[f].items))
             /\ \A g \in DOMAIN flows' :
                   SameItems(flows'[f].items, flows'[g].items) =>
                       total_amount(flows'[f]) = total_amount(flows'[g])
       /\ \A i \in Inv :
             (inv[i].pc = "send" /\ inv'[i].pc # "send") =>
                 inv'[i].link_total = total_amount(inv[i].payment_flow)
       /\ (UpdateStep /\ last'.message = "payment_confirmation") =>
             last'.total_amount = total_amount(flows'[last'.flow_id])]_vars

C26_Witness ==
    /\ \E f, g \in DOMAIN flows :
          /\ flows[f].items = <<Camisa, Jean, Gorra>>
          /\ flows[g].items = <<Jean, Gorra, Camisa>>
          /\ total_amount(flows[f]) = 234900
          /\ total_amount(flows[g]) = 234900
    /\ \E i \in Inv : inv[i].link_sent = "sent" /\ inv[i].link_total = 234900
    /\ last.op = "update" /\ last.message = "payment_confirmation"
    /\ last.total_amount = 234900

\* a phone whose digits are 10 long, or 12 long starting with 57
Normalizable(phone) ==
    LET clean_phone == Digits(phone)
    IN \/ Len(clean_phone) = 10
       \/ Len(clean_phone) = 12 /\ StartsWith57(clean_phone)

\* what the normalizer named op gives for a phone, << >> when it raises
NormalizedBy(op, phone) ==
    IF op = "Customer.validate_phone"
    THEN IF customer_validate_phone(phone)
         THEN customer_phone_value(phone) ELSE << >>
    ELSE format_phone_number_for_bird(phone)

\* C27: phone normalization maps a bare 10-digit number and the same number
\* written with the +57 prefix to the same canonical value, and rejects
\* every input whose digits are neither 10 long nor 12 long starting with 57.
C27_PhoneNormalization ==
    last.op \in {"Customer.validate_phone", "format_phone_number_for_bird"} =>
        /\ Len(last.phone) = 10 /\ Digits(last.phone) = last.phone =>
              /\ last.accepted
              /\ last.value = NormalizedBy(last.op, <<"+", "5", "7">> \o last.phone)
        /\ ~Normalizable(last.phone) => ~last.accepted

\* C28: initiate_payment_flow accepts every customer_phone that is
\* normalizable, a bare 10-digit number included, and fails only for one
\* that is not; every flow it creates carries customer_phone in the single
\* canonical format, whatever accepted spelling was passed.
C28_PhoneAccepted ==
    [][/\ \A i \in Inv, phone \in PhoneSpellings :
             InitiateStart(i, "c1", phone, <<Camisa>>) =>
                 (Normalizable(phone) <=> inv'[i].error = None)
       /\ \A f, g \in DOMAIN flows' :
             Digits(customer_phone_value(flows'[f].customer_phone))
                 = Digits(customer_phone_value(flows'[g].customer_phone))
             => flows'[f].customer_phone = flows'[g].customer_phone]_vars

\* the steps made on behalf of a retry_failed_payment call: the steps of
\* the invocation of initiate_payment_flow it made, and its lineage write
RetryStep ==
    \E i \in Inv : inv'[i] # inv[i] /\ inv'[i].retry_of # NoId

\* what the gateway preference gave a flow
GatewayFields(flow) ==
    <<flow.payment_id, flow.transaction_id, flow.checkout_url>>

\* C29: once a stored flow carries the payment_id, transaction_id and
\* checkout_url of its preference, no step of a status update, of a retry
\* or of a cancellation changes any of the three.
C29_GatewayFieldsImmutable ==
    [][UpdateStep \/ RetryStep \/ CancelStep =>
          \A f \in DOMAIN flows :
              flows[f].payment_id # NoId =>
                  /\ f \in DOMAIN flows'
                  /\ GatewayFields(flows'[f]) = GatewayFields(flows[f])]_vars

\* C30: every step that changes a stored flow leaves it with a later
\* updated_at than it had (a flow not updated before has none), and no step
\* changes a stored flow's created_at.
C30_UpdatedAtAdvances ==
    [][\A f \in (DOMAIN flows) \cap (DOMAIN flows') :
          /\ flows'[f] # flows[f] =>
                 flows'[f].updated_at > flows[f].updated_at
          /\ flows'[f].created_at = flows[f].created_at]_vars

\* the item ids of a cart's entries are pairwise different
UniqueIds(cart_items) ==
    \A j, k \in 1..Len(cart_items) :
        cart_items[j].id = cart_items[k].id => j = k

\* C31: whatever was added to, removed from or cleared in a conversation's
\* cart, no two of its entries share an item id, in a ConversationSession
\* and in a ConversationContext alike.
C31_CartIdsUnique ==
    UniqueIds(session.cart_items) /\ UniqueIds(bird_context.cart_items)

\* the steps that change a ConversationSession's cart
SessionCartStep ==
    /\ ops' = ops + 1 /\ now' = now
    /\ \/ last'.op \in {"ConversationSession.add_cart_item",
                        "ConversationSession.clear_cart"}
       \/ last'.op = "ConversationSession.remove_cart_item" /\ last'.ret

\* C32: after an add_cart_item, a remove_cart_item that removed something
\* or a clear_cart of a ConversationSession, cart_total is the sum of
\* quantity times unit_price over the cart's entries, 0 for an empty cart.
C32_CartTotalRecomputed ==
    [][SessionCartStep =>
          /\ session'.cart_total = SumItems(session'.cart_items)
          /\ session'.cart_items = << >> => session'.cart_total = 0]_vars

\* an item was added twice under one id and removed items are gone: the
\* total counts the merged quantity
C32_Witness ==
    /\ last.op = "ConversationSession.add_cart_item"
    /\ Len(session.cart_items) = 2
    /\ \E k \in 1..2 : session.cart_items[k].quantity = 3
    /\ session.cart_total = 3 * 50000 + 89900

\* C33: an invocation of initiate_payment_flow sends the payment-link
\* message only from the point where the preference was created and the flow
\* was put into the store with status preference_created; an invocation
\* whose create_preference failed sends no payment-link message and writes
\* neither preference_created nor link_sent into the store.
C33_LinkAfterPreference ==
    [][\A i \in Inv :
          /\ inv[i].pc = "create" /\ inv'[i].pc = "send" =>
                /\ inv'[i].response.id # NoId
                /\ inv'[i].flow_id \in DOMAIN flows'
                /\ flows'[inv'[i].flow_id] = inv'[i].payment_flow
                /\ flows'[inv'[i].flow_id].status = "preference_created"
                /\ flows'[inv'[i].flow_id].payment_id = inv'[i].response.id
          /\ inv'[i].link_sent # inv[i].link_sent =>
                /\ inv[i].pc = "send"
                /\ inv[i].response.id # NoId
                /\ inv[i].payment_flow.status = "preference_created"
          /\ inv[i].pc = "create" /\ inv'[i].pc = "done" =>
                /\ inv'[i].link_sent = None
                /\ \A f \in DOMAIN flows' :
                      flows'[f].status \in {"preference_created", "link_sent"} =>
                          f \in DOMAIN flows /\ flows[f].status = flows'[f].status
          /\ inv[i].pc = "done" => inv'[i] = inv[i]]_vars

\* one invocation sent its link after its preference was created, another
\* ended when create_preference raised PaymentError and sent nothing
C33_Witness ==
    \E i, j \in Inv :
        /\ inv[i].pc = "done" /\ inv[i].link_sent = "sent"
        /\ inv[i].response.id # NoId
        /\ inv[j].pc = "done" /\ inv[j].error = "PaymentError"
        /\ inv[j].link_sent = None

\* C34: a request to the webhook handler whose x-signature header is
\* missing or is not the HMAC-SHA256 digest of the body under the configured
\* secret, or that arrives while the secret is empty, is answered with 401,
\* and process_payment_webhook is not invoked for it.
C34_UnsignedRejected ==
    [][(HandlerStep
          /\ \/ last'.signature = NoSignature
             \/ last'.secret = NoSecret
             \/ last'.signature # hmac_sha256(last'.secret, last'.body)) =>
          /\ last'.status_code = 401
          /\ last'.handler = None
          /\ ~last'.validated
          /\ payments' = payments
          /\ events' = events]_vars

\* a payment notification signed with the empty key, while the secret
\* configured is empty, was answered with 401
C34_Witness ==
    /\ last.op = "lambda_handler"
    /\ last.body = WebhookData("payment", "payment.updated", <<"pay", 1>>)
    /\ last.secret = NoSecret
    /\ last.signature = hmac_sha256(NoSecret, last.body)
    /\ last.status_code = 401

\* C35: for a correctly signed, well-formed payment notification the webhook
\* handler answers 200 or 500, and it answers 200 only when
\* process_webhook_notification ran for it: the payment was fetched.
C35_AcknowledgedOnlyWhenProcessed ==
    [][(HandlerStep /\ last'.validated /\ last'.body.type = "payment") =>
          /\ last'.status_code \in {200, 500}
          /\ last'.status_code = 200 => last'.fetched]_vars

\* C36: when the client processes a payment notification, an event is
\* emitted only with the fetched status recorded in the payments table;
\* when get_payment fails the result is False, the table is not updated and
\* no event is emitted; and when the payment was fetched the result is True
\* whether or not the event could be emitted.
C36_RecordedBeforeEmitted ==
    [][(ClientStep /\ last'.validated /\ last'.body.type = "payment") =>
          /\ last'.fetched
          /\ events' # events =>
                /\ last'.body.data_id \in DOMAIN payments'
                /\ payments'[last'.body.data_id] = last'.payment_status
                /\ events' = Append(events,
                                    [event_type |-> "payment_status_changed",
                                     payment_id |-> last'.body.data_id,
                                     status |-> last'.payment_status])
          /\ last'.payment_status = None =>
                ~last'.ret /\ payments' = payments /\ events' = events
          /\ last'.payment_status # None => last'.ret]_vars

\* the payment statuses one of the three branches of the update handles
BranchStatuses ==
    {"approved", "authorized", "rejected", "cancelled", "pending", "in_process"}

\* C37: a status update for a stored flow whose payment status is none of
\* approved, authorized, rejected, cancelled, pending, in_process leaves the
\* flow's status as it was: for in_mediation, refunded and charged_back the
\* payment status and payment data are recorded and the result is true; for
\* a string that is no payment status nothing is stored and the result is
\* false.
C37_UnclassifiedKeepsStatus ==
    [][(UpdateStep /\ last'.flow_id # NoId
          /\ last'.payment_status \notin BranchStatuses) =>
          LET fid == last'.flow_id
              ps == last'.payment_status
          IN /\ flows'[fid].status = flows[fid].status
             /\ last'.handler = None /\ last'.message = None
             /\ ps \in {"in_mediation", "refunded", "charged_back"} =>
                   /\ flows'[fid].payment_status = ps
                   /\ flows'[fid].payment_data = [status |-> ps]
                   /\ last'.ret = TRUE
             /\ ps \notin PaymentStatus =>
                   flows' = flows /\ last'.ret = FALSE]_vars

\* an approved flow was refunded: it is still payment_approved and carries
\* the refunded payment status
C37_Witness ==
    /\ last.op = "update" /\ last.payment_status = "refunded"
    /\ last.old_status = "payment_approved" /\ last.ret = TRUE
    /\ flows[last.flow_id].status = "payment_approved"
    /\ flows[last.flow_id].payment_status = "refunded"

\* the step in which invocation i of initiate_payment_flow ends by raising
FailingStep(i) ==
    inv[i].pc # "done" /\ inv'[i].pc = "done" /\ inv'[i].error # None

\* C38: the step in which an invocation of initiate_payment_flow fails
\* changes the stored status of no flow but the one that invocation created
\* itself: the flow stored under its flow id that carries the payment id its
\* own preference was given.
C38_FailureMarksOwnFlowOnly ==
    [][\A i \in Inv :
          FailingStep(i) =>
              \A f \in DOMAIN flows :
                  flows'[f].status # flows[f].status =>
                      /\ f = inv'[i].flow_id
                      /\ inv[i].response.id # NoId
                      /\ flows[f].payment_id = inv[i].response.id]_vars

\* C39: no step of retry_failed_payment(F, P) changes the stored status,
\* items or metadata of the flow F that is retried.
C39_RetryKeepsOriginal ==
    [][\A i \in Inv :
          (inv'[i] # inv[i] /\ inv'[i].retry_of \in DOMAIN flows) =>
              LET F == inv'[i].retry_of
              IN /\ F \in DOMAIN flows'
                 /\ flows'[F].status = flows[F].status
                 /\ flows'[F].items = flows[F].items
                 /\ flows'[F].metadata = flows[F].metadata]_vars

\* the steps of a message sent through the Bird client
BirdStep ==
    /\ ops' = ops + 1 /\ now' = now
    /\ last'.op = "bird_send"

\* C40: once the Bird client holds a token, every payment message sent
\* before the token expires makes no new auth request and is not failed by
\* the authentication step: it is handed to the messaging call, whose
\* outcome is the result.
C40_TokenReused ==
    [][(BirdStep /\ bird.access_token # None
          /\ now < bird.token_expires_at) =>
          /\ bird' = bird
          /\ last'.error = None
          /\ last'.delivered # None]_vars

====
